---- MODULE Spec2Model ----
(***************************************************************************)
(* A model of the C2S stream of jackal (c2s inStream, src/xmpp/message.go  *)
(* lines 96-937): the per-connection state machine, its actor mailbox, its *)
(* reader goroutine, the connect timer and the callers of Disconnect.      *)
(* The router's bound-stream registry, the session and the authenticators  *)
(* are collaborators whose code is outside the sources; they are modelled  *)
(* from the specification's description of them.                           *)
(***************************************************************************)
EXTENDS Integers, Sequences, FiniteSets, TLC

(***************************************************************************)
(* Stream states (const block, iota).                                      *)
(***************************************************************************)
connecting == 0
connected == 1
authenticating == 2
authenticated == 3
sessionStarted == 4
disconnected == 5

(***************************************************************************)
(* Bounds of the model.                                                    *)
(***************************************************************************)
\* capacity of a stream's actor mailbox (streamMailboxSize)
MaxMailbox == 2
\* how often one step (one stream error) of a stream is recorded at most
MaxSteps == 2
\* cap of the number of router.Route calls counted for one message
MaxRoute == 3
\* mailboxSize of a module: capacity of its actorCh
MaxModMailbox == 1
\* capacity of the offline module's actorCh
MaxOffMailbox == 2
\* how many messages are handed to the offline module
MaxMsgs == 3
\* how many messages other archivers add to the recipient's offline queue
MaxStored == 3
MaxOwn == 2
\* the effective module.Initialize calls of one run
MaxInit == 2

Streams == {"s1", "s2"}
Callers == {"c1"}
Senders == {"d1"}
\* the modules with an actor loop
ModuleActors == {"disco", "last_activity", "private", "vcard"}

\* namespaces
saslNamespace == "urn:ietf:params:xml:ns:xmpp-sasl"
tlsNamespace == "urn:ietf:params:xml:ns:xmpp-tls"
compressProtocolNamespace == "http://jabber.org/protocol/compress"

\* resource conflict policies
Reject == "Reject"
Override == "Override"
Replace == "Replace"

\* transport kinds
Socket == "socket"
WebSocket == "websocket"

\* the local host, a remote host; accounts known to storage
LocalDomain == "jackal.im"
RemoteDomain == "remote.org"

\* error values passed to Disconnect / disconnect
ErrNil == "nil"
ErrSystemShutdown == "system-shutdown"
ErrResourceConstraint == "resource-constraint"
ErrConnectionTimeout == "connection-timeout"
ErrNotAuthorized == "not-authorized"
ErrUnsupportedStanzaType == "unsupported-stanza-type"
ErrInvalidNamespace == "invalid-namespace"
ErrUndefinedCondition == "undefined-condition"
ErrPolicyViolation == "policy-violation"
ErrOther == "non-stream-error"
StreamErrors == {ErrSystemShutdown, ErrPolicyViolation, ErrResourceConstraint, ErrConnectionTimeout,
                 ErrNotAuthorized, ErrUnsupportedStanzaType, ErrInvalidNamespace,
                 ErrUndefinedCondition}

VARIABLES
    client,     \* client[s]: the peer of connection s: "none" (no connection), "any", "plain"
    cfg,        \* streamConfig: transport, compression, resourceConflict, sasl, connectTimeout;
                \* module.Config: enabled
    stm,        \* stm[s]: the inStream's fields: state, context, activeAuth, connectTm
    term,       \* term[s]: the steps of the close sequence that ran, the stream errors written
    actorCh,    \* actorCh[s]: the mailbox, a sequence of closures
    actor,      \* actor[s]: where the actor goroutine (loop) stands
    rdRecv,     \* rdRecv[s]: number of doRead goroutines blocked in sess.Receive
    rdHold,     \* rdHold[s]: what doRead goroutines hold between Receive and the mailbox send
    pend,       \* pend[s]: tokens of the elements Receive returned and the actor has not handled, in order
    tmo,        \* tmo[s]: the goroutine time.AfterFunc starts for connectTimeout
    streams,    \* the router's registry of bound streams
    caller,     \* caller[c]: a goroutine calling Disconnect (Callers) or SendElement (Senders)
    acked,      \* ids (callers, streams) whose waitCh has been closed
    last,       \* the closure that the step just taken ended, if any: stream, state before, input,
                \* elements written, calls made to the modules
    shutdownCh, \* the modules' shared shutdown channel: "open" or "closed"
    mods,       \* the module package: initialized, mods.iqHandlers, and of shutdownCh the
                \* number of make(chan) (gen) and of close() on the current one (closes)
    modActorCh, \* modActorCh[h]: the mailbox of module h: the streams whose IQ each closure answers
    modActor,   \* modActor[h]: where the actor goroutine (loop) of module h stands
    offline     \* the offline module of stream s1 and the storage's offline queue of one recipient

modVars == <<shutdownCh, mods, modActorCh, modActor, offline>>
vars == <<client, cfg, stm, term, actorCh, actor, rdRecv, rdHold, pend, tmo, streams, caller, acked, last,
          shutdownCh, mods, modActorCh, modActor, offline>>

(***************************************************************************)
(* JIDs.                                                                   *)
(***************************************************************************)
JID(node, domain, resource) == [node |-> node, domain |-> domain, resource |-> resource]
EmptyJID == JID("", "", "")
IsServer(j) == j.node = "" /\ j.resource = ""
IsFullWithUser(j) == j.node # "" /\ j.resource # ""
IsLocalHost(d) == d = LocalDomain

\* jid.New(node, domain, resource, false): stringprep rejects some resourceparts
BadResource == "bad resource"
jidNewFails(resource) == resource = BadResource

\* uuid.New(): a resourcepart no client asks for and no other stream gets
uuidNew(s) == IF s = "s1" THEN "uuid-1" ELSE "uuid-2"

(***************************************************************************)
(* Inbound elements.  An element is a record: name, namespace, recipient,  *)
(* type, the child that matters (with its text) and, in env, what the      *)
(* collaborators answer while it is handled (the authenticator's           *)
(* ProcessElement, the router's blocklist).                                *)
(***************************************************************************)
El(name, ns, to, type, child, text, env) ==
    [name |-> name, ns |-> ns, to |-> to, type |-> type, child |-> child, text |-> text, env |-> env,
     id |-> ""]
\* the element with the id attribute the client gave it
ServerJID == JID("", LocalDomain, "")
NoEl == El("", "", EmptyJID, "", "", "", "")

\* the stream-open envelope a session returns first
OpenElems == {El("stream:stream", "jabber:client", ServerJID, "", "", "", "")}

\* Authenticator.ProcessElement: authenticated, one more round trip, a SASL error, another error
AuthOutcomes == {"done", "continue", "sasl-error", "error"}
AuthUsername == "ortuman"

AuthElems == {El("auth", saslNamespace, ServerJID, "", "", "PLAIN", o) : o \in AuthOutcomes}
             \cup {El("auth", saslNamespace, ServerJID, "", "", "X-FOO", "done"),
                   El("auth", saslNamespace, ServerJID, "", "", "plain", "done"),
                   El("auth", "other", ServerJID, "", "", "PLAIN", "done")}
CompressElems == {El("compress", compressProtocolNamespace, ServerJID, "", "method", txt, "") :
                     txt \in {"zlib", "lzw", ""}}
                 \cup {El("compress", compressProtocolNamespace, ServerJID, "", "none", "", ""),
                       El("compress", "other", ServerJID, "", "method", "zlib", "")}
SessionElems == {El("iq", "", ServerJID, "set", "session", "", "")}
OtherElems == {El("foo", "", ServerJID, "", "", "", "")}

(***************************************************************************)
(* The working copy a closure of the actor of stream s updates: the        *)
(* stream's fields m, the record t of its close sequence, the registry reg *)
(* and the elements written to the session, out.                           *)
(***************************************************************************)
writeElement(w, e) == [w EXCEPT !.out = Append(@, e)]
\* the error stanza of a stanza (iq.ServiceUnavailableError()): it keeps the id
ServiceUnavailableError(stanza) == <<stanza.name, "error", "service-unavailable", stanza.id>>
setState(w, st) == [w EXCEPT !.m.state = st]
Count(steps, name) == Cardinality({i \in 1..Len(steps) : steps[i] = name})
Step(w, name) == [w EXCEPT !.t.steps = IF Count(@, name) < MaxSteps THEN Append(@, name) ELSE @]

(***************************************************************************)
(* The router's registry (modelled from the specification, 4.2).           *)
(***************************************************************************)
\* Bind: insert under (bare JID, resource); nothing without a resource; an error,
\* which bindResource cannot see, when the entry exists
Bind(reg, s, m) ==
    IF m.resource = "" THEN reg
    ELSE IF \E e \in reg : e.node = m.username /\ e.domain = m.domain /\ e.resource = m.resource
         THEN reg
         ELSE reg \cup {[stm |-> s, node |-> m.username, domain |-> m.domain, resource |-> m.resource]}
\* Unbind: remove the stream; idempotent
Unbind(reg, s) == {e \in reg : e.stm # s}
\* UserStreams(node): the streams bound for that user
UserStreams(reg, node) == {e.stm : e \in {x \in reg : x.node = node}}

\* session.New + setState(connecting)
restartSession(w) == setState(w, connecting)

MutDisconnectClosingSession(w, s, closeSession, unbind) ==
    LET w1 == IF closeSession THEN Step(writeElement(w, <<"/stream:stream">>), "sess.Close") ELSE w
        w2 == Step(w1, "close(doneCh)")
        w3 == IF unbind THEN [Step(w2, "router.Unbind") EXCEPT !.reg = Unbind(@, s)] ELSE w2
        w4 == Step(w3, "inContainer.delete")
    IN  Step(w4, "transport.Close")

disconnectClosingSession(w, s, closeSession, unbind) ==
    LET w1 == IF closeSession THEN Step(writeElement(w, <<"/stream:stream">>), "sess.Close") ELSE w
        w2 == Step(w1, "close(doneCh)")
        w3 == IF unbind THEN [Step(w2, "router.Unbind") EXCEPT !.reg = Unbind(@, s)] ELSE w2
        w4 == Step(w3, "inContainer.delete")
        w5 == Step(setState(w4, disconnected), "setState(disconnected)")
    IN  Step(w5, "transport.Close")

MutDisconnectWithStreamError(w, s, err) ==
    LET w1 == IF w.m.state = connecting THEN writeElement(w, <<"stream:stream">>) ELSE w
        w2 == [writeElement(w1, <<"stream:error", err>>) EXCEPT
                  !.t.errs = IF Len(@) < MaxSteps THEN Append(@, err) ELSE @]
    IN  disconnectClosingSession(w2, s, TRUE, TRUE)

disconnectWithStreamError(w, s, err) ==
    LET w1 == IF w.m.state = connecting THEN writeElement(w, <<"stream:stream">>) ELSE w
        w2 == [writeElement(w1, <<"stream:error", err>>) EXCEPT
                  !.t.errs = IF Len(@) < MaxSteps THEN Append(@, err) ELSE @]
    IN  disconnectClosingSession(w2, s, TRUE, err # ErrSystemShutdown)

MutDisconnect(w, s, err) ==
    IF w.m.state = disconnected THEN w
    ELSE IF err = ErrNil THEN disconnectClosingSession(w, s, FALSE, FALSE)
    ELSE IF err \in StreamErrors THEN disconnectWithStreamError(w, s, err)
    ELSE disconnectClosingSession(w, s, FALSE, TRUE)

disconnect(w, s, err) ==
    IF w.m.state = disconnected THEN w
    ELSE IF err = ErrNil THEN disconnectClosingSession(w, s, FALSE, TRUE)
    ELSE IF err \in StreamErrors THEN disconnectWithStreamError(w, s, err)
    ELSE disconnectClosingSession(w, s, FALSE, TRUE)

(***************************************************************************)
(* Stream negotiation.                                                     *)
(***************************************************************************)
\* initializeAuthenticators: s.authenticators, by the Mechanism() of each, for the
\* list cfg.sasl; a scram entry gives two authenticators, without and with channel
\* binding
initializeAuthenticators(sasl) ==
    LET of(a) == CASE a = "plain" -> <<"PLAIN">>
                   [] a = "digest_md5" -> <<"DIGEST-MD5">>
                   [] a = "scram_sha_1" -> <<"SCRAM-SHA-1", "SCRAM-SHA-1-PLUS">>
                   [] a = "scram_sha_256" -> <<"SCRAM-SHA-256", "SCRAM-SHA-256-PLUS">>
                   [] OTHER -> <<>>
        upTo[i \in 0..Len(sasl)] == IF i = 0 THEN <<>> ELSE upTo[i - 1] \o of(sasl[i])
    IN  upTo[Len(sasl)]

unauthenticatedFeatures(w) ==
    LET isSocketTr == cfg.transport = Socket
        shouldOfferSASL == ~isSocketTr \/ (isSocketTr /\ w.m.secured)
        authenticators == initializeAuthenticators(cfg.sasl)
    IN  (IF isSocketTr /\ ~w.m.secured THEN <<"starttls">> ELSE <<>>)
        \o (IF shouldOfferSASL /\ Len(authenticators) > 0
            THEN <<"mechanisms">> \o authenticators
            ELSE <<>>)

authenticatedFeatures(w) ==
    LET isSocketTr == cfg.transport = Socket
        compressionAvailable == isSocketTr /\ cfg.compression
    IN  (IF ~w.m.compressed /\ compressionAvailable THEN <<"compression">> ELSE <<>>)
        \o <<"bind", "session">>

handleConnecting(w, elem) ==
    LET w1 == [w EXCEPT !.m.connectTm = "nil",
                        !.m.domain = elem.to.domain,
                        !.m.jid = JID("", elem.to.domain, "")]
        w2 == writeElement(w1, <<"stream:stream">>)
    IN  IF ~w2.m.authenticated
        THEN writeElement(setState(w2, connected), <<"stream:features">> \o unauthenticatedFeatures(w2))
        ELSE writeElement(setState(w2, authenticated), <<"stream:features">> \o authenticatedFeatures(w2))

MutProceedStartTLS(w, s, elem) ==
    IF elem.ns # "" /\ elem.ns # tlsNamespace THEN disconnectWithStreamError(w, s, ErrInvalidNamespace)
    ELSE restartSession(Step(writeElement([w EXCEPT !.m.secured = TRUE], <<"proceed">>), "transport.StartTLS"))

proceedStartTLS(w, s, elem) ==
    IF w.m.secured THEN disconnectWithStreamError(w, s, ErrNotAuthorized)
    ELSE IF elem.ns # "" /\ elem.ns # tlsNamespace THEN disconnectWithStreamError(w, s, ErrInvalidNamespace)
    ELSE restartSession(Step(writeElement([w EXCEPT !.m.secured = TRUE], <<"proceed">>), "transport.StartTLS"))

\* if s.activeAuth != nil { s.activeAuth.Reset(); s.activeAuth = nil }
resetActiveAuth(w) ==
    IF w.m.activeAuth = "" THEN w
    ELSE [w EXCEPT !.calls = Append(@, <<"Reset", w.m.activeAuth, "">>), !.m.activeAuth = ""]

MutFailAuthentication(w, cond) ==
    setState(resetActiveAuth(writeElement(w, <<"failure", cond>>)), connecting)

failAuthentication(w, cond) ==
    setState(resetActiveAuth(writeElement(w, <<"failure", cond>>)), connected)

finishAuthentication(w, username) ==
    restartSession([resetActiveAuth(w) EXCEPT
                             !.m.jid = JID(username, w.m.domain, ""),
                             !.m.username = username,
                             !.m.authenticated = TRUE])

\* continueAuthentication: the working copy after authr.ProcessElement(elem) answered elem.env
continueAuthentication(w, elem, authr) ==
    LET w1 == [w EXCEPT !.calls = Append(@, <<"ProcessElement", authr, elem.id>>)]
    IN  IF elem.env = "sasl-error" THEN failAuthentication(w1, "not-authorized")
        ELSE IF elem.env = "error" THEN failAuthentication(w1, "temporary-auth-failure")
        ELSE w1

MutStartAuthentication(w, s, elem) ==
    IF elem.ns # saslNamespace THEN disconnectWithStreamError(w, s, ErrInvalidNamespace)
    ELSE LET authenticators == initializeAuthenticators(cfg.sasl)
             authr == IF \E i \in 1..Len(authenticators) : authenticators[i] = elem.text
                      THEN elem.text ELSE "PLAIN"
             w1 == continueAuthentication(w, elem, authr)
         IN  IF elem.env \in {"sasl-error", "error"} THEN w1
             ELSE IF elem.env = "done" THEN finishAuthentication(w1, AuthUsername)
             ELSE setState([w1 EXCEPT !.m.activeAuth = authr], authenticating)

startAuthentication(w, s, elem) ==
    IF elem.ns # saslNamespace THEN disconnectWithStreamError(w, s, ErrInvalidNamespace)
    ELSE IF \E i \in 1..Len(initializeAuthenticators(cfg.sasl)) :
               initializeAuthenticators(cfg.sasl)[i] = elem.text
    THEN LET w1 == continueAuthentication(w, elem, elem.text)
         IN  IF elem.env \in {"sasl-error", "error"} THEN w1
             ELSE IF elem.env = "done" THEN finishAuthentication(w1, AuthUsername)
             ELSE setState([w1 EXCEPT !.m.activeAuth = elem.text], authenticating)
    ELSE writeElement(w, <<"failure", "invalid-mechanism">>)

MutHandleConnected(w, s, elem) ==
    CASE elem.name = "starttls" -> proceedStartTLS(w, s, elem)
      [] elem.name = "auth" -> startAuthentication(w, s, elem)
      [] elem.name = "iq" -> writeElement(w, ServiceUnavailableError(elem))
      [] OTHER -> disconnectWithStreamError(w, s, ErrUnsupportedStanzaType)

handleConnected(w, s, elem) ==
    CASE elem.name = "starttls" -> proceedStartTLS(w, s, elem)
      [] elem.name = "auth" -> startAuthentication(w, s, elem)
      [] elem.name = "iq" -> writeElement(w, ServiceUnavailableError(elem))
      [] elem.name \in {"message", "presence"} -> disconnectWithStreamError(w, s, ErrNotAuthorized)
      [] OTHER -> disconnectWithStreamError(w, s, ErrUnsupportedStanzaType)

handleAuthenticating(w, s, elem) ==
    IF elem.ns # saslNamespace THEN disconnectWithStreamError(w, s, ErrInvalidNamespace)
    ELSE LET w1 == continueAuthentication(w, elem, w.m.activeAuth)
         IN  IF elem.env = "done" THEN finishAuthentication(w1, AuthUsername) ELSE w1

compress(w, s, elem) ==
    IF w.m.compressed THEN disconnectWithStreamError(w, s, ErrUnsupportedStanzaType)
    ELSE IF elem.child # "method" \/ elem.text = ""
    THEN writeElement(w, <<"failure", "setup-failed">>)
    ELSE IF elem.text # "zlib"
    THEN writeElement(w, <<"failure", "unsupported-method">>)
    ELSE restartSession(Step(writeElement([w EXCEPT !.m.compressed = TRUE], <<"compressed">>),
                             "transport.EnableCompression"))

\* without a bound resource startSession calls s.Disconnect(ErrNotAuthorized): the
\* call is recorded, and the actor that makes it inside its own closure does not
\* come back from it (RunElem)
startSession(w, iq) ==
    IF w.m.resource = "" THEN [w EXCEPT !.calls = Append(@, <<"Disconnect", ErrNotAuthorized>>)]
    ELSE IF iq.child # "session" THEN writeElement(w, <<"iq", "error", "not-allowed">>)
    ELSE setState(writeElement(w, <<"iq", "result">>), sessionStarted)

(***************************************************************************)
(* Stanzas of an established session.                                      *)
(***************************************************************************)
\* recipients: a resource of the user, another resource, the bare user, an account
\* without streams, no account, a remote user, the server
MessageElems ==
    {El("message", "", to, "chat", "body", "", "") :
        to \in {JID("ortuman", LocalDomain, "balcony"), JID("ortuman", LocalDomain, "yard"),
                JID("ortuman", LocalDomain, ""), JID("bob", LocalDomain, ""),
                JID("noone", LocalDomain, ""), JID("romeo", RemoteDomain, "orchard"), ServerJID}}
                \cup {El("message", "", JID("bob", LocalDomain, ""), "chat", "body", "", b) :
                         b \in {"blocked", "blocked-by-user"}}
PresenceElems == {El("presence", "", JID("ortuman", LocalDomain, ""), ty, "", "", "") :
                     ty \in {"", "unavailable", "subscribe"}}
                 \cup {El("presence", "", JID("ortuman", LocalDomain, "yard"), "", "", "", "")}
IQElems == {El("iq", "", ServerJID, ty, ch, "", "") :
               ty \in {"get", "set", "result"},
               ch \in {"ping", "disco#info", "vCard", "jabber:iq:private", "private+disco#info+vCard",
                       "disco#info+vCard"}}
           \cup {El("iq", "", ServerJID, "get", ch, "", "") :
                    ch \in {"jabber:iq:last", "jabber:iq:version", "disco#items"}}
           \cup {El("iq", "", ServerJID, "error", "disco#info", "", "")}
           \cup {[El("iq", "", ServerJID, ty, "ping", "", "") EXCEPT !.id = "q2"] : ty \in {"get", "error"}}
           \cup {[El("iq", "", JID("", "upload.jackal.im", ""), "get", "ping", "", "") EXCEPT !.id = "q2"]}
           \cup {El("iq", "", to, ty, "ping", "", "") :
                    to \in {JID("ortuman", LocalDomain, "yard"), JID("romeo", RemoteDomain, "orchard")},
                    ty \in {"get", "result"}}
           \cup {El("iq", "", JID("bob", LocalDomain, "home"), ty, "ping", "", "blocked") :
                    ty \in {"get", "result"}}
IsStanza(elem) == elem.name \in {"iq", "message", "presence"}
\* the domains component.Get finds a server component for
Components == {"upload.jackal.im"}

\* router.Route (specification 4.2): the outcome for a recipient, given the registry
RouteOutcome(reg, elem) ==
    LET to == elem.to
        rcps == {e \in reg : e.node = to.node /\ e.domain = to.domain}
    IN  IF elem.env = "blocked" /\ ~IsServer(to) THEN "ErrBlockedJID"
        ELSE IF ~IsLocalHost(to.domain) THEN "ErrFailedRemoteConnect"
        ELSE IF rcps = {} THEN (IF to.node \in {"ortuman", "bob"} THEN "ErrNotAuthenticated"
                                ELSE "ErrNotExistingAccount")
        ELSE IF IsFullWithUser(to) /\ ~\E e \in rcps : e.resource = to.resource
        THEN "ErrResourceNotFound"
        ELSE "nil"
\* the streams Route hands the stanza to (SendElement) when the outcome is nil
RouteTargets(reg, elem) ==
    LET to == elem.to
        rcps == {e \in reg : e.node = to.node /\ e.domain = to.domain}
    IN  IF IsFullWithUser(to) THEN {e.stm : e \in {x \in rcps : x.resource = to.resource}}
        ELSE {e.stm : e \in rcps}

MutIsBlockedJID(elem) == elem.env = "blocked-by-user"

\* isBlockedJID: router.IsBlockedJID answers elem.env for a recipient that is not the server
isBlockedJID(elem) ==
    IF IsServer(elem.to) /\ IsLocalHost(elem.to.domain) THEN FALSE ELSE elem.env = "blocked-by-user"

\* the children of an IQ, in document order: <query/> elements by their namespace
Children(iq) ==
    CASE iq.child = "private+disco#info+vCard" -> <<"jabber:iq:private", "disco#info", "vCard">>
      [] iq.child = "disco#info+vCard" -> <<"disco#info", "vCard">>
      [] OTHER -> <<iq.child>>
HasChild(iq, c) == \E i \in 1..Len(Children(iq)) : Children(iq)[i] = c
\* Elements().Child("query"): the namespace of the first <query/>, "" without one
FirstQuery(iq) ==
    LET qs == SelectSeq(Children(iq),
                        LAMBDA c : c \in {"disco#info", "disco#items", "jabber:iq:last",
                                          "jabber:iq:private", "jabber:iq:version"})
    IN  IF qs = <<>> THEN "" ELSE Head(qs)

\* initializeModules: a new shutdownCh, then disco and the enabled modules in this
\* order are appended to mods.iqHandlers
ModuleOrder == <<"last_activity", "private", "vcard", "version">>
initializeModules(m, enabled) ==
    [m EXCEPT !.gen = @ + 1, !.closes = 0,
              !.iqHandlers = @ \o <<"disco">> \o SelectSeq(ModuleOrder, LAMBDA h : h \in enabled)]

\* module.Initialize(cfg) on the package state m
Initialize(m, enabled) ==
    IF m.initialized THEN m
    ELSE [initializeModules(m, enabled) EXCEPT !.initialized = TRUE]

MutShutdown(m) ==
    IF ~m.initialized THEN m
    ELSE [m EXCEPT !.closes = @ + 1, !.initialized = FALSE]

\* module.Shutdown() on the package state m: close(shutdownCh), mods = Mods{}
Shutdown(m) ==
    IF ~m.initialized THEN m
    ELSE [m EXCEPT !.closes = @ + 1, !.iqHandlers = <<>>, !.initialized = FALSE]

\* module.IQHandlers()
IQHandlers == mods.iqHandlers
MutMatchesIQ(h, iq) ==
    CASE h = "disco" -> FirstQuery(iq) \in {"disco#info", "disco#items"}
      [] h = "last_activity" -> iq.type = "get" /\ HasChild(iq, "jabber:iq:last")
      [] h = "private" -> HasChild(iq, "jabber:iq:private")
      [] h = "vcard" -> iq.type \in {"get", "set"} /\ HasChild(iq, "vCard")
      [] h = "version" -> iq.type = "get" /\ HasChild(iq, "jabber:iq:version")
      [] OTHER -> FALSE

MatchesIQ(h, iq) ==
    CASE h = "disco" -> FirstQuery(iq) # "" /\ iq.type = "get"
                        /\ FirstQuery(iq) \in {"disco#info", "disco#items"}
      [] h = "last_activity" -> iq.type = "get" /\ HasChild(iq, "jabber:iq:last")
      [] h = "private" -> HasChild(iq, "jabber:iq:private")
      [] h = "vcard" -> iq.type \in {"get", "set"} /\ HasChild(iq, "vCard")
      [] h = "version" -> iq.type = "get" /\ HasChild(iq, "jabber:iq:version")
      [] OTHER -> FALSE

\* the loop of processIQ over the handlers from position i on: the handlers asked
\* MatchesIQ are recorded, the first that matches gets ProcessIQ
RECURSIVE tryHandlers(_, _, _)
MutTryHandlers(w, iq, i) ==
    IF i > Len(w.handlers)
    THEN IF iq.type \in {"get", "set"} THEN writeElement(w, ServiceUnavailableError(iq)) ELSE w
    ELSE LET w1 == [w EXCEPT !.calls = Append(@, <<"MatchesIQ", w.handlers[i], iq.id>>)]
         IN  IF ~MatchesIQ(w.handlers[i], iq) THEN tryHandlers(w1, iq, i + 1)
             ELSE tryHandlers([w1 EXCEPT !.calls = Append(@, <<"ProcessIQ", w.handlers[i], iq.id>>)],
                              iq, i + 1)

tryHandlers(w, iq, i) ==
    IF i > Len(w.handlers)
    THEN IF iq.type \in {"get", "set"} THEN writeElement(w, ServiceUnavailableError(iq)) ELSE w
    ELSE LET w1 == [w EXCEPT !.calls = Append(@, <<"MatchesIQ", w.handlers[i], iq.id>>)]
         IN  IF ~MatchesIQ(w.handlers[i], iq) THEN tryHandlers(w1, iq, i + 1)
             ELSE [w1 EXCEPT !.calls = Append(@, <<"ProcessIQ", w.handlers[i], iq.id>>)]

MutProcessIQOnBehalf(w, iq) ==
    LET r == tryHandlers(w, iq, 1)
    IN  IF r.out = <<>> /\ ~\E i \in 1..Len(r.calls) : r.calls[i][1] = "ProcessIQ"
        THEN writeElement(r, ServiceUnavailableError(iq))
        ELSE r

\* processIQ for an IQ answered on behalf
processIQOnBehalf(w, iq) == tryHandlers(w, iq, 1)

\* processPresence without routing: the presence is cached when addressed to the own bare JID
processPresence(w, presence) ==
    LET replyOnBehalf == w.m.jid.node = presence.to.node /\ w.m.jid.domain = presence.to.domain
    IN  IF replyOnBehalf /\ presence.type \in {"", "unavailable"}
        THEN [w EXCEPT !.m.presence = IF presence.type = "" THEN "available" ELSE "unavailable"]
        ELSE w

(***************************************************************************)
(* handleElement for the elements one actor step handles completely.       *)
(***************************************************************************)
\* the iq of a stream without resource is a bind request: bindResource takes more
\* than one step (BindStart .. BindFinish); here the iq is the session request
handleAuthenticated(w, s, elem) ==
    CASE elem.name = "compress" ->
            IF elem.ns # compressProtocolNamespace
            THEN disconnectWithStreamError(w, s, ErrUnsupportedStanzaType)
            ELSE compress(w, s, elem)
      [] elem.name = "iq" -> startSession(w, elem)
      [] OTHER -> disconnectWithStreamError(w, s, ErrUnsupportedStanzaType)

\* the stanzas handed to router.Route take more than one step (RouteStart ..
\* RouteDeliver); here are the others
handleSessionStarted(w, s, elem) ==
    IF ~IsStanza(elem) THEN disconnectWithStreamError(w, s, ErrUnsupportedStanzaType)
    ELSE IF elem.to.domain \in Components
    THEN [w EXCEPT !.calls = Append(@, <<"component.ProcessStanza", elem.to.domain, elem.id>>)]
    ELSE IF isBlockedJID(elem)
    THEN writeElement(w, <<elem.name, "error", "not-acceptable", "blocked">>)
    ELSE IF elem.name = "presence" THEN processPresence(w, elem)
    ELSE processIQOnBehalf(w, elem)

handleElement(w, s, elem) ==
    CASE w.m.state = connecting -> handleConnecting(w, elem)
      [] w.m.state = connected -> handleConnected(w, s, elem)
      [] w.m.state = authenticated -> handleAuthenticated(w, s, elem)
      [] w.m.state = authenticating -> handleAuthenticating(w, s, elem)
      [] w.m.state = sessionStarted -> handleSessionStarted(w, s, elem)
      [] OTHER -> w

\* which elements take more than one step of the actor
IsBindRequest(m, elem) == m.state = authenticated /\ elem.name = "iq" /\ m.resource = ""
IsRouted(m, elem) ==
    /\ m.state = sessionStarted /\ IsStanza(elem) /\ ~isBlockedJID(elem)
    /\ elem.to.domain \notin Components
    /\ \/ elem.name = "message"
       \/ elem.name = "presence" /\ IsFullWithUser(elem.to)
       \/ elem.name = "iq" /\ ~(~IsFullWithUser(elem.to) /\ IsLocalHost(elem.to.domain))

\* processIQ hands the IQ to a handler with an actor: handler.ProcessIQ is a send on
\* the module's mailbox
IsProcessed(w, elem) ==
    /\ w.m.state = sessionStarted /\ elem.name = "iq"
    /\ elem.to.domain \notin Components /\ ~isBlockedJID(elem)
    /\ ~IsFullWithUser(elem.to) /\ IsLocalHost(elem.to.domain)
    /\ LET r == tryHandlers(w, elem, 1)
       IN  /\ r.calls # <<>>
           /\ r.calls[Len(r.calls)][1] = "ProcessIQ"
           /\ r.calls[Len(r.calls)][2] \in ModuleActors

\* a <starttls/> sent after the negotiation of TLS
LateStartTLS == {El("starttls", tlsNamespace, ServerJID, "", "", "", "")}
\* the elements a client sends in each state (the session returns the stream open first)
AnyInbound(m) ==
    CASE m.state = connecting -> OpenElems
      [] m.state = connected ->
            {El("starttls", ns, ServerJID, "", "", "", "") : ns \in {"", tlsNamespace, "other"}}
            \cup AuthElems \cup {El("iq", "", ServerJID, "get", "ping", "", "")} \cup OtherElems
                                \cup {El("message", "", ServerJID, "chat", "body", "", ""),
                                      El("presence", "", ServerJID, "", "", "", "")}
      [] m.state = authenticating ->
            {El("response", saslNamespace, ServerJID, "", "", "", o) : o \in AuthOutcomes}
            \cup {El("response", "other", ServerJID, "", "", "", "done")} \cup LateStartTLS
      [] m.state = authenticated ->
            CompressElems
            \cup {El("iq", "", ServerJID, "set", "bind/resource", r, "") : r \in {"", "balcony", BadResource}}
            \cup {El("iq", "", ServerJID, "set", "bind", "", "")} \cup SessionElems \cup OtherElems
                                    \cup LateStartTLS
      [] m.state = sessionStarted -> MessageElems \cup PresenceElems \cup IQElems \cup OtherElems
                                     \cup LateStartTLS
      [] OTHER -> OtherElems
\* a plain client: the handshake without errors over PLAIN, a bind, the session, a
\* message to its own full JID and one to a user without a stream, and a request
\* IQ to a full JID of that user, also when the router says the user has blocked
\* the recipient, and an IQ to the server for which the router says the same
PlainInbound(m) ==
    CASE m.state = connecting -> OpenElems
      [] m.state = connected -> {El("starttls", tlsNamespace, ServerJID, "", "", "", ""),
                                 El("auth", saslNamespace, ServerJID, "", "", "PLAIN", "done")}
      [] m.state = authenticated ->
            {El("iq", "", ServerJID, "set", "bind/resource", r, "") : r \in {"", "balcony"}}
            \cup SessionElems
      [] m.state = sessionStarted ->
            {El("message", "", to, "chat", "body", "", "") :
                to \in {JID("ortuman", LocalDomain, "balcony"), JID("bob", LocalDomain, "")}}
            \cup {El("iq", "", JID("bob", LocalDomain, "balcony"), "get", "ping", "", b) :
                     b \in {"", "blocked-by-user"}}
            \cup {El("iq", "", ServerJID, "get", "disco#info", "", "blocked-by-user")}
            \cup {El("iq", "", JID("", "upload.jackal.im", ""), "get", "ping", "", "blocked-by-user")}
      [] OTHER -> OtherElems
\* the IQs to the server that a module with an actor handles
ModuleIQs == {e \in IQElems : e.to = ServerJID /\ \E h \in ModuleActors : MatchesIQ(h, e)}
\* a client "iq" sends only these, a client "any" everything else, a client "all"
\* everything
Inbound(s) ==
    CASE client[s] = "plain" -> PlainInbound(stm[s])
      [] client[s] = "iq" -> ModuleIQs
      [] client[s] = "any" -> AnyInbound(stm[s]) \ ModuleIQs
      [] OTHER -> AnyInbound(stm[s])
Conns == {s \in Streams : client[s] # "none"}

(***************************************************************************)
(* Closures in a mailbox, and the actor's position.                        *)
(***************************************************************************)
\* k: "elem" (readElement), "serr" (handleSessionError), "disc" (Disconnect),
\* "tmo" (connectTimeout), "send" (SendElement); by: whose waitCh a "disc" closes
Cl(k, tok, err, by) == [k |-> k, tok |-> tok, err |-> err, by |-> by]
\* pc: "loop" (receive on actorCh), "bind" (bindResource, before jid.New),
\* "Disconnect.send" / "Disconnect.wait" (inside stm.Disconnect of the Replace policy),
\* "route" (before router.Route), "SendElement" (Route delivering), "exited"
\* hs: the handlers module.IQHandlers() returned to a processIQ under way
At(pc, el, res, peer, n) ==
    [pc |-> pc, el |-> el, res |-> res, peer |-> peer, n |-> n, hs |-> <<>>]
Loop == At("loop", NoEl, "", "", 0)
MutExited == At("loop", NoEl, "", "", 0)
Exited == At("exited", NoEl, "", "", 0)

\* the offline module: cfg.QueueSize, the number of messages the storage holds for
\* the recipient, the mailbox (the messages of the closures), the actor's position,
\* the message it works on and the count it got, the next message to be archived,
\* and a log of what archiveMessage decided: <<"insert" or "SendElement", message, count>>;
\* other: the position of the offline actor of another sender's stream;
\* own: the messages the storage holds for the stream's user, arch: those another
\* stream's module has counted for and not inserted yet, fetched: those
\* deliverOfflineMessages fetched and has not handed to SendElement yet, sent: those
\* put into the stream's mailbox, deleted: those DeleteOfflineMessages removed
Off(q, stored, ch, pc, msg, n, next, log) ==
    [queueSize |-> q, stored |-> stored, ch |-> ch, pc |-> pc, msg |-> msg, n |-> n,
     next |-> next, log |-> log, other |-> "loop",
     own |-> {}, arch |-> {}, fetched |-> <<>>, sent |-> {}, deleted |-> {}]
NoOffline == Off(0, 0, <<>>, "none", 0, 0, 1, <<>>)

\* last, when the step just taken did not end a closure
NoLast == [stm |-> "", pre |-> connecting, in |-> NoEl, out |-> <<>>, calls |-> <<>>]

\* handlers: what module.IQHandlers() returns to the closure
W(s) == [m |-> stm[s], t |-> term[s], reg |-> streams, out |-> <<>>, calls |-> <<>>,
         handlers |-> IQHandlers]
Full(s) == Len(actorCh[s]) >= MaxMailbox

\* go s.doRead() at the end of readElement: the number of readers it starts
MutReadElementSpawn(st) == IF st # disconnected THEN 2 ELSE 0
readElementSpawn(st) == IF st # disconnected THEN 1 ELSE 0

\* the smallest token no pending element carries
FreshTok(s) == CHOOSE k \in 1..(Len(pend[s]) + 1) : \A i \in 1..Len(pend[s]) : pend[s][i] # k
Without(seq, tok) == SelectSeq(seq, LAMBDA x : x # tok)

\* a closure of stream s ends with working copy w: the fields are stored, readElement
\* starts the next doRead, and loop returns when the state is disconnected
Finish(s, w, pre, in, isRead) ==
    /\ stm' = [stm EXCEPT ![s] = w.m]
    /\ term' = [term EXCEPT ![s] = w.t]
    /\ streams' = w.reg
    /\ last' = [stm |-> s, pre |-> pre, in |-> in, out |-> w.out, calls |-> w.calls]
    /\ rdRecv' = [rdRecv EXCEPT ![s] = IF isRead THEN @ + readElementSpawn(w.m.state) ELSE @]
    /\ actor' = [actor EXCEPT ![s] = IF w.m.state = disconnected THEN Exited ELSE Loop]

Ready(s, k) == actor[s].pc = "loop" /\ actorCh[s] # <<>> /\ Head(actorCh[s]).k = k

(***************************************************************************)
(* The reader: doRead.                                                     *)
(***************************************************************************)
\* sess.Receive returns an element or a session error
Receive(s) ==
    /\ rdRecv[s] > 0
    /\ rdRecv' = [rdRecv EXCEPT ![s] = @ - 1]
    /\ \/ /\ rdHold' = [rdHold EXCEPT ![s] = @ \cup {Cl("elem", FreshTok(s), "", "")}]
          /\ pend' = [pend EXCEPT ![s] = Append(@, FreshTok(s))]
       \/ /\ rdHold' = [rdHold EXCEPT ![s] = @ \cup {Cl("serr", 0, "", "")}]
          /\ pend' = pend
    /\ UNCHANGED <<client, cfg, stm, term, actorCh, actor, tmo, streams, caller, acked>>
    /\ last' = NoLast
    /\ UNCHANGED modVars

\* s.actorCh <- func() {...}
Post(s) ==
    /\ ~Full(s)
    /\ \E h \in rdHold[s] :
          /\ rdHold' = [rdHold EXCEPT ![s] = @ \ {h}]
          /\ actorCh' = [actorCh EXCEPT ![s] = Append(@, h)]
    /\ UNCHANGED <<client, cfg, stm, term, actor, rdRecv, pend, tmo, streams, caller, acked>>
    /\ last' = NoLast
    /\ UNCHANGED modVars

(***************************************************************************)
(* The connect timer.                                                      *)
(***************************************************************************)
TimerFire(s) ==
    /\ stm[s].connectTm = "armed" /\ tmo[s] = "idle"
    /\ tmo' = [tmo EXCEPT ![s] = "sending"]
    /\ UNCHANGED <<client, cfg, stm, term, actorCh, actor, rdRecv, rdHold, pend, streams, caller, acked>>
    /\ last' = NoLast
    /\ UNCHANGED modVars

connectTimeout(s) ==
    /\ tmo[s] = "sending" /\ ~Full(s)
    /\ tmo' = [tmo EXCEPT ![s] = "done"]
    /\ actorCh' = [actorCh EXCEPT ![s] = Append(@, Cl("tmo", 0, ErrConnectionTimeout, ""))]
    /\ UNCHANGED <<client, cfg, stm, term, actor, rdRecv, rdHold, pend, streams, caller, acked>>
    /\ last' = NoLast
    /\ UNCHANGED modVars

(***************************************************************************)
(* Disconnect, called from another goroutine.                              *)
(***************************************************************************)

DisconnectCall(c) ==
    /\ caller[c].pc \in {"idle", "returned"}
    /\ \E s \in Conns, e \in {ErrNil, ErrSystemShutdown, ErrNotAuthorized, ErrOther} :
          caller' = [caller EXCEPT ![c] = [pc |-> IF stm[s].state = disconnected THEN "returned" ELSE "send",
                                           stm |-> s, err |-> e]]
    /\ UNCHANGED <<client, cfg, stm, term, actorCh, actor, rdRecv, rdHold, pend, tmo, streams, acked>>
    /\ last' = NoLast
    /\ UNCHANGED modVars

DisconnectSend(c) ==
    /\ caller[c].pc = "send" /\ ~Full(caller[c].stm)
    /\ actorCh' = [actorCh EXCEPT ![caller[c].stm] = Append(@, Cl("disc", 0, caller[c].err, c))]
    /\ caller' = [caller EXCEPT ![c].pc = "wait"]
    /\ UNCHANGED <<client, cfg, stm, term, actor, rdRecv, rdHold, pend, tmo, streams, acked>>
    /\ last' = NoLast
    /\ UNCHANGED modVars

DisconnectReturn(c) ==
    /\ caller[c].pc = "wait" /\ c \in acked
    /\ acked' = acked \ {c}
    /\ caller' = [caller EXCEPT ![c].pc = "returned"]
    /\ UNCHANGED <<client, cfg, stm, term, actorCh, actor, rdRecv, rdHold, pend, tmo, streams>>
    /\ last' = NoLast
    /\ UNCHANGED modVars

(***************************************************************************)
(* SendElement, called from another goroutine (a module, the router).      *)
(***************************************************************************)
MutSendElementCall(c) ==
    /\ caller[c].pc = "idle"
    /\ \E s \in Conns : caller' = [caller EXCEPT ![c] = [pc |-> "send", stm |-> s, err |-> ErrNil]]
    /\ UNCHANGED <<client, cfg, stm, term, actorCh, actor, rdRecv, rdHold, pend, tmo, streams, acked>>
    /\ last' = NoLast
    /\ UNCHANGED modVars

\* if s.getState() == disconnected { return }
SendElementCall(c) ==
    /\ caller[c].pc = "idle"
    /\ \E s \in Conns :
          caller' = [caller EXCEPT ![c] = [pc |-> IF stm[s].state = disconnected THEN "dropped" ELSE "send",
                                           stm |-> s, err |-> ErrNil]]
    /\ UNCHANGED <<client, cfg, stm, term, actorCh, actor, rdRecv, rdHold, pend, tmo, streams, acked>>
    /\ last' = NoLast
    /\ UNCHANGED modVars

\* s.actorCh <- func() { s.writeElement(elem) }
SendElementSend(c) ==
    /\ caller[c].pc = "send" /\ ~Full(caller[c].stm)
    /\ actorCh' = [actorCh EXCEPT ![caller[c].stm] = Append(@, Cl("send", 0, "", ""))]
    /\ caller' = [caller EXCEPT ![c].pc = "returned"]
    /\ UNCHANGED <<client, cfg, stm, term, actor, rdRecv, rdHold, pend, tmo, streams, acked>>
    /\ last' = NoLast
    /\ UNCHANGED modVars

(***************************************************************************)
(* The actor: loop runs the closures of the mailbox one at a time.         *)
(***************************************************************************)
\* readElement for an element handled in one step. A closure in which the actor
\* calls Disconnect on its own stream does not end: Disconnect sends the
\* disconnect closure on the stream's mailbox and waits on waitCh, which only
\* this actor could close
RunElem(s) ==
    /\ Ready(s, "elem")
    /\ \E elem \in Inbound(s) :
          /\ ~IsBindRequest(stm[s], elem) /\ ~IsRouted(stm[s], elem) /\ ~IsProcessed(W(s), elem)
          /\ LET r == handleElement(W(s), s, elem)
             IN  IF \E i \in 1..Len(r.calls) : r.calls[i][1] = "Disconnect"
                 THEN /\ actorCh' = [actorCh EXCEPT ![s] = Append(Tail(@), Cl("disc", 0, ErrNotAuthorized, s))]
                      /\ actor' = [actor EXCEPT ![s] = At("Disconnect.wait", elem, "", s, 0)]
                      /\ last' = NoLast
                      /\ UNCHANGED <<stm, term, streams, rdRecv>>
                 ELSE /\ Finish(s, r, stm[s].state, elem, TRUE)
                      /\ actorCh' = [actorCh EXCEPT ![s] = Tail(@)]
    /\ pend' = [pend EXCEPT ![s] = Without(@, Head(actorCh[s]).tok)]
    /\ UNCHANGED <<client, cfg, rdHold, tmo, caller, acked>>
    /\ UNCHANGED modVars

\* the closure doRead posts for a session error
handleSessionError(w, s, sErr) ==
    CASE sErr = "nil" -> disconnect(w, s, ErrNil)
      [] sErr \in StreamErrors -> disconnectWithStreamError(w, s, sErr)
      [] sErr = "stanza-error" -> writeElement(w, <<"stanza", "error", "bad-request">>)
      [] OTHER -> disconnectWithStreamError(w, s, ErrUndefinedCondition)

\* sess.Receive reports the transport closed (nil), a stream error, a stanza error
\* or any other error; a plain client only closes its connection
RunSessionError(s) ==
    /\ Ready(s, "serr")
    /\ \E sErr \in (IF client[s] \in {"plain", "iq"} THEN {"nil"}
                     ELSE {"nil", ErrPolicyViolation, "stanza-error", "io-error"}) :
          Finish(s, handleSessionError(W(s), s, sErr), stm[s].state,
                 El("session-error", "", EmptyJID, "", "", "", sErr), FALSE)
    /\ actorCh' = [actorCh EXCEPT ![s] = Tail(@)]
    /\ UNCHANGED <<client, cfg, rdHold, pend, tmo, caller, acked>>
    /\ UNCHANGED modVars

\* the closure Disconnect posts: disconnect(err); close(waitCh)
RunDisconnect(s) ==
    /\ Ready(s, "disc")
    /\ Finish(s, disconnect(W(s), s, Head(actorCh[s]).err), stm[s].state,
              El("Disconnect", "", EmptyJID, "", "", "", Head(actorCh[s]).err), FALSE)
    /\ acked' = acked \cup {Head(actorCh[s]).by}
    /\ actorCh' = [actorCh EXCEPT ![s] = Tail(@)]
    /\ UNCHANGED <<client, cfg, rdHold, pend, tmo, caller>>
    /\ UNCHANGED modVars

\* the closure connectTimeout posts
RunTimeout(s) ==
    /\ Ready(s, "tmo")
    /\ Finish(s, disconnect(W(s), s, ErrConnectionTimeout), stm[s].state,
              El("connectTimeout", "", EmptyJID, "", "", "", ErrConnectionTimeout), FALSE)
    /\ actorCh' = [actorCh EXCEPT ![s] = Tail(@)]
    /\ UNCHANGED <<client, cfg, rdHold, pend, tmo, caller, acked>>
    /\ UNCHANGED modVars

\* the closure SendElement posts
RunSend(s) ==
    /\ Ready(s, "send")
    /\ Finish(s, writeElement(W(s), <<"stanza">>), stm[s].state,
              El("SendElement", "", EmptyJID, "", "", "", ""), FALSE)
    /\ actorCh' = [actorCh EXCEPT ![s] = Tail(@)]
    /\ UNCHANGED <<client, cfg, rdHold, pend, tmo, caller, acked>>
    /\ UNCHANGED modVars

(***************************************************************************)
(* bindResource: the lookup of a conflicting stream, the Disconnect of the *)
(* Replace policy, and the binding.                                        *)
(***************************************************************************)
\* the streams of the user (by the node of the stream's JID) that own the resource
bindConflict(s, resource) ==
    {x \in UserStreams(streams, stm[s].jid.node) : stm[x].resource = resource}

bindRequested(s, iq) == IF iq.child = "bind/resource" THEN iq.text ELSE uuidNew(s)

\* from jid.New on: the context, the session's JID, router.Bind and the result IQ
bindResourceFinish(w, s, resource) ==
    IF jidNewFails(resource) THEN writeElement(w, <<"iq", "error", "bad-request">>)
    ELSE LET m1 == [w.m EXCEPT !.resource = resource,
                               !.jid = JID(w.m.username, w.m.domain, resource)]
             w1 == [w EXCEPT !.m = m1, !.reg = Bind(w.reg, s, m1)]
         IN  writeElement(w1, <<"iq", "result", "bind", m1.username, m1.domain, m1.resource>>)

BindStart(s) ==
    /\ Ready(s, "elem")
    /\ \E iq \in Inbound(s) :
          /\ IsBindRequest(stm[s], iq)
          /\ LET resource == bindRequested(s, iq)
                 stms == bindConflict(s, resource)
                 peer == IF stms = {} THEN "" ELSE CHOOSE x \in stms : TRUE
             IN  IF iq.child \notin {"bind", "bind/resource"}
                 THEN Finish(s, writeElement(W(s), <<"iq", "error", "not-allowed">>),
                             stm[s].state, iq, TRUE)
                 ELSE IF stms # {} /\ cfg.resourceConflict \notin {Override, Replace}
                 THEN Finish(s, writeElement(W(s), <<"iq", "error", "conflict">>),
                             stm[s].state, iq, TRUE)
                 ELSE /\ actor' = [actor EXCEPT ![s] =
                            IF stms = {} THEN At("bind", iq, resource, "", 0)
                            ELSE IF cfg.resourceConflict = Override THEN At("bind", iq, uuidNew(s), "", 0)
                            ELSE IF stm[peer].state = disconnected THEN At("bind", iq, resource, "", 0)
                            ELSE At("Disconnect.send", iq, resource, peer, 0)]
                      /\ last' = NoLast
                      /\ UNCHANGED <<stm, term, streams, rdRecv>>
    /\ actorCh' = [actorCh EXCEPT ![s] = Tail(@)]
    /\ pend' = [pend EXCEPT ![s] = Without(@, Head(actorCh[s]).tok)]
    /\ UNCHANGED <<client, cfg, rdHold, tmo, caller, acked>>
    /\ UNCHANGED modVars

\* stm.Disconnect(ErrResourceConstraint): the send on the other stream's mailbox
ReplaceSend(s) ==
    /\ actor[s].pc = "Disconnect.send" /\ ~Full(actor[s].peer)
    /\ actorCh' = [actorCh EXCEPT ![actor[s].peer] = Append(@, Cl("disc", 0, ErrResourceConstraint, s))]
    /\ actor' = [actor EXCEPT ![s].pc = "Disconnect.wait"]
    /\ UNCHANGED <<client, cfg, stm, term, rdRecv, rdHold, pend, tmo, streams, caller, acked>>
    /\ last' = NoLast
    /\ UNCHANGED modVars

\* stm.Disconnect(ErrResourceConstraint): <-waitCh
ReplaceWait(s) ==
    /\ actor[s].pc = "Disconnect.wait" /\ s \in acked
    /\ acked' = acked \ {s}
    /\ actor' = [actor EXCEPT ![s].pc = "bind"]
    /\ UNCHANGED <<client, cfg, stm, term, actorCh, rdRecv, rdHold, pend, tmo, streams, caller>>
    /\ last' = NoLast
    /\ UNCHANGED modVars

BindFinish(s) ==
    /\ actor[s].pc = "bind"
    /\ Finish(s, bindResourceFinish(W(s), s, actor[s].res), authenticated, actor[s].el, TRUE)
    /\ UNCHANGED <<client, cfg, actorCh, rdHold, pend, tmo, caller, acked>>
    /\ UNCHANGED modVars

(***************************************************************************)
(* Routed stanzas: processMessage, processIQ and processPresence call      *)
(* router.Route, which delivers with SendElement.                          *)
(***************************************************************************)
\* what the stream answers to a routing outcome that ends the processing
routeReply(w, elem, err) ==
    CASE elem.name = "message" /\ err \in {"ErrNotExistingAccount", "ErrBlockedJID"} ->
            writeElement(w, ServiceUnavailableError(elem))
      [] elem.name = "message" /\ err = "ErrFailedRemoteConnect" ->
            writeElement(w, <<"message", "error", "remote-server-not-found">>)
      [] elem.name = "iq" /\ err = "ErrResourceNotFound" ->
            writeElement(w, ServiceUnavailableError(elem))
      [] elem.name = "iq" /\ err = "ErrFailedRemoteConnect" ->
            writeElement(w, <<"iq", "error", "remote-server-not-found">>)
      [] elem.name = "iq" /\ err = "ErrBlockedJID" /\ elem.type \in {"get", "set"} ->
            writeElement(w, ServiceUnavailableError(elem))
      [] OTHER -> w

\* case router.ErrResourceNotFound of processMessage: toJID = toJID.ToBareJID(); goto
\* sendMessage. The message handed to router.Route again is the one returned here.
readdress(message) == message

RouteStart(s) ==
    /\ Ready(s, "elem")
    /\ \E elem \in Inbound(s) :
          /\ IsRouted(stm[s], elem)
          /\ actor' = [actor EXCEPT ![s] = At("route", elem, "", "", 0)]
    /\ actorCh' = [actorCh EXCEPT ![s] = Tail(@)]
    /\ pend' = [pend EXCEPT ![s] = Without(@, Head(actorCh[s]).tok)]
    /\ UNCHANGED <<client, cfg, stm, term, rdRecv, rdHold, tmo, streams, caller, acked>>
    /\ last' = NoLast
    /\ UNCHANGED modVars

RouteCall(s) ==
    /\ actor[s].pc = "route" /\ actor[s].n < MaxRoute
    /\ LET elem == actor[s].el
           err == RouteOutcome(streams, elem)
           live == {x \in RouteTargets(streams, elem) : stm[x].state # disconnected}
       IN  IF err = "nil" /\ live # {}
           THEN /\ \E x \in live : actor' = [actor EXCEPT ![s] = At("SendElement", elem, "", x, actor[s].n + 1)]
                /\ last' = NoLast
                /\ UNCHANGED <<stm, term, streams, rdRecv>>
           ELSE IF err = "ErrResourceNotFound" /\ elem.name = "message"
           THEN /\ actor' = [actor EXCEPT ![s] = At("route", readdress(elem), "", "", actor[s].n + 1)]
                /\ last' = NoLast
                /\ UNCHANGED <<stm, term, streams, rdRecv>>
           ELSE Finish(s, routeReply(W(s), elem, err), sessionStarted, elem, TRUE)
    /\ UNCHANGED <<client, cfg, actorCh, rdHold, pend, tmo, caller, acked>>
    /\ UNCHANGED modVars

\* SendElement of the recipient's stream, run by the sender's actor inside Route
RouteDeliver(s) ==
    /\ actor[s].pc = "SendElement" /\ ~Full(actor[s].peer)
    /\ actorCh' = [actorCh EXCEPT ![actor[s].peer] = Append(@, Cl("send", 0, "", ""))]
    /\ Finish(s, W(s), sessionStarted, actor[s].el, TRUE)
    /\ UNCHANGED <<client, cfg, rdHold, pend, tmo, caller, acked>>
    /\ UNCHANGED modVars

(***************************************************************************)
(* The modules' actors. Each module has a mailbox and a loop; ProcessIQ    *)
(* posts a closure, the closure answers the IQ with router.Route.          *)
(***************************************************************************)
streamVars == <<client, cfg, stm, term, actorCh, actor, rdRecv, rdHold, pend, tmo, streams, caller, acked>>

\* the handler that gets ProcessIQ in processIQ
ProcessingHandler(w, iq) ==
    LET r == tryHandlers(w, iq, 1) IN r.calls[Len(r.calls)][2]

\* processIQ of an IQ answered on behalf, up to handler.ProcessIQ(iq)
ProcessIQStart(s) ==
    /\ Ready(s, "elem")
    /\ \E iq \in Inbound(s) :
          /\ IsProcessed(W(s), iq)
          /\ actor' = [actor EXCEPT ![s] = [At("ProcessIQ", iq, "", "", 0)
                                              EXCEPT !.hs = IQHandlers]]
    /\ last' = NoLast
    /\ UNCHANGED <<stm, term, streams, rdRecv>>
    /\ actorCh' = [actorCh EXCEPT ![s] = Tail(@)]
    /\ pend' = [pend EXCEPT ![s] = Without(@, Head(actorCh[s]).tok)]
    /\ UNCHANGED <<client, cfg, rdHold, tmo, caller, acked>>
    /\ UNCHANGED modVars

\* ProcessIQ: x.actorCh <- func() { x.processIQ(iq) }
ProcessIQSend(s) ==
    /\ actor[s].pc = "ProcessIQ"
    /\ LET w == [W(s) EXCEPT !.handlers = actor[s].hs]
           h == ProcessingHandler(w, actor[s].el)
       IN  /\ Len(modActorCh[h]) < MaxModMailbox
           /\ modActorCh' = [modActorCh EXCEPT ![h] = Append(@, s)]
           /\ Finish(s, tryHandlers(w, actor[s].el, 1), sessionStarted, actor[s].el, TRUE)
    /\ UNCHANGED <<client, cfg, actorCh, rdHold, pend, tmo, caller, acked>>
    /\ UNCHANGED <<shutdownCh, mods, modActor, offline>>

\* loop: case f := <-x.actorCh: f()
ModTake(h) ==
    /\ modActor[h].pc = "loop" /\ modActorCh[h] # <<>>
    /\ modActor' = [modActor EXCEPT ![h] = [pc |-> "processIQ", stm |-> Head(modActorCh[h])]]
    /\ modActorCh' = [modActorCh EXCEPT ![h] = Tail(@)]
    /\ UNCHANGED <<streamVars, shutdownCh, mods, offline>>
    /\ last' = NoLast

\* the closure's router.Route(reply) of the result or error IQ to the full JID of
\* the stream it answers, up to the state check of SendElement; the
\* closure ends here when the reply is not delivered
ModRoute(h) ==
    /\ modActor[h].pc = "processIQ"
    /\ LET reply == El("iq", "", stm[modActor[h].stm].jid, "result", "", "", "")
           live == {x \in RouteTargets(streams, reply) : stm[x].state # disconnected}
       IN  IF RouteOutcome(streams, reply) = "nil" /\ live # {}
           THEN \E x \in live : modActor' = [modActor EXCEPT ![h] = [pc |-> "SendElement", stm |-> x]]
           ELSE modActor' = [modActor EXCEPT ![h] = [pc |-> "loop", stm |-> ""]]
    /\ UNCHANGED <<streamVars, shutdownCh, mods, modActorCh, offline>>
    /\ last' = NoLast

\* SendElement's send on the stream's actorCh, run by the module's actor; the
\* closure ends with it
ModDeliver(h) ==
    /\ modActor[h].pc = "SendElement" /\ ~Full(modActor[h].stm)
    /\ actorCh' = [actorCh EXCEPT ![modActor[h].stm] = Append(@, Cl("send", 0, "", ""))]
    /\ modActor' = [modActor EXCEPT ![h] = [pc |-> "loop", stm |-> ""]]
    /\ UNCHANGED <<client, cfg, stm, term, actor, rdRecv, rdHold, pend, tmo, streams, caller, acked>>
    /\ UNCHANGED <<shutdownCh, mods, modActorCh, offline>>
    /\ last' = NoLast

\* loop: case <-x.shutdownCh: return
ModExit(h) ==
    /\ modActor[h].pc = "loop" /\ shutdownCh = "closed"
    /\ modActor' = [modActor EXCEPT ![h] = [pc |-> "exited", stm |-> ""]]
    /\ UNCHANGED <<streamVars, shutdownCh, mods, modActorCh, offline>>
    /\ last' = NoLast

\* a call of module.Shutdown; the actors of the modules see their channel closed
ShutdownCall ==
    /\ mods' = Shutdown(mods)
    /\ shutdownCh' = IF mods.initialized THEN "closed" ELSE shutdownCh
    /\ UNCHANGED <<streamVars, modActorCh, modActor, offline>>
    /\ last' = NoLast

\* a call of module.Initialize with some configuration; the constructors of the
\* modules start their actors on the new channel (the actors of an earlier
\* initialization leave on their closed channel and are not followed further)
InitializeCall ==
    /\ mods.gen < MaxInit
    /\ \E e \in SUBSET {ModuleOrder[i] : i \in 1..Len(ModuleOrder)} :
          /\ mods' = Initialize(mods, e)
          /\ IF mods.initialized
             THEN UNCHANGED <<cfg, shutdownCh, modActorCh, modActor>>
             ELSE /\ cfg' = [cfg EXCEPT !.enabled = e]
                  /\ shutdownCh' = "open"
                  /\ modActorCh' = [h \in ModuleActors |-> <<>>]
                  /\ modActor' = [h \in ModuleActors |->
                                    [pc |-> IF h = "disco" \/ h \in e THEN "loop" ELSE "none",
                                     stm |-> ""]]
    /\ UNCHANGED <<client, stm, term, actorCh, actor, rdRecv, rdHold, pend, tmo, streams,
                   caller, acked, offline>>
    /\ last' = NoLast

(***************************************************************************)
(* The offline module of a stream: ArchiveMessage posts a closure to the   *)
(* module's actor, archiveMessage counts, then inserts or bounces.         *)
(***************************************************************************)
OffStream == "s1"
StorageErrs == {"nil", "error"}

\* if queueSize >= o.cfg.QueueSize { bounce } else { insert }
MutArchiveDecision(queueSize, cfgQueueSize) == IF queueSize > cfgQueueSize THEN "SendElement" ELSE "insert"
archiveDecision(queueSize, cfgQueueSize) == IF queueSize >= cfgQueueSize THEN "SendElement" ELSE "insert"

\* ArchiveMessage: o.actorCh <- func() { o.archiveMessage(message) }
ArchiveMessage ==
    /\ offline.pc # "none" /\ offline.next <= MaxMsgs /\ Len(offline.ch) < MaxOffMailbox
    /\ offline' = [offline EXCEPT !.ch = Append(@, offline.next), !.next = @ + 1]
    /\ UNCHANGED <<streamVars, shutdownCh, mods, modActorCh, modActor>>
    /\ last' = NoLast

\* actorLoop: case f := <-o.actorCh: f()
OffTake ==
    /\ offline.pc = "loop" /\ offline.ch # <<>>
    /\ offline' = [offline EXCEPT !.pc = IF Head(offline.ch) = 0 THEN "deliverOfflineMessages"
                                         ELSE "archiveMessage",
                                  !.msg = Head(offline.ch), !.ch = Tail(@)]
    /\ UNCHANGED <<streamVars, shutdownCh, mods, modActorCh, modActor>>
    /\ last' = NoLast

\* archiveMessage: storage.Instance().CountOfflineMessages and the comparison with QueueSize
OffCount ==
    /\ offline.pc = "archiveMessage"
    /\ \E err \in StorageErrs :
          offline' = IF err # "nil" THEN [offline EXCEPT !.pc = "loop"]
                     ELSE [offline EXCEPT !.n = offline.stored,
                                          !.pc = archiveDecision(offline.stored, offline.queueSize)]
    /\ UNCHANGED <<streamVars, shutdownCh, mods, modActorCh, modActor>>
    /\ last' = NoLast

\* archiveMessage: o.stm.SendElement(response.ServiceUnavailableError()), its state check
OffBounce ==
    /\ offline.pc = "SendElement"
    /\ offline' = [offline EXCEPT !.log = Append(@, <<"SendElement", offline.msg, offline.n>>),
                                  !.pc = IF stm[OffStream].state = disconnected THEN "loop" ELSE "send"]
    /\ UNCHANGED <<streamVars, shutdownCh, mods, modActorCh, modActor>>
    /\ last' = NoLast

\* SendElement's send on the stream's actorCh, run by the offline module's actor
OffSend ==
    /\ offline.pc = "send" /\ ~Full(OffStream)
    /\ actorCh' = [actorCh EXCEPT ![OffStream] = Append(@, Cl("send", 0, "", ""))]
    /\ offline' = [offline EXCEPT !.pc = "loop"]
    /\ UNCHANGED <<client, cfg, stm, term, actor, rdRecv, rdHold, pend, tmo, streams, caller, acked>>
    /\ UNCHANGED <<shutdownCh, mods, modActorCh, modActor>>
    /\ last' = NoLast

\* archiveMessage: storage.Instance().InsertOfflineMessage(delayed, toJid.Node())
OffInsert ==
    /\ offline.pc = "insert"
    /\ \E err \in StorageErrs :
          offline' = IF err # "nil" THEN [offline EXCEPT !.pc = "loop"]
                     ELSE [offline EXCEPT !.stored = @ + 1, !.pc = "loop",
                                          !.log = Append(@, <<"insert", offline.msg, offline.n>>)]
    /\ UNCHANGED <<streamVars, shutdownCh, mods, modActorCh, modActor>>
    /\ last' = NoLast

\* archiveMessage of the offline module of another sender's stream, for the same
\* recipient: its CountOfflineMessages found the queue below QueueSize
OtherCount ==
    /\ offline.pc # "none" /\ offline.other = "loop"
    /\ archiveDecision(offline.stored, offline.queueSize) = "insert"
    /\ offline' = [offline EXCEPT !.other = "insert"]
    /\ UNCHANGED <<streamVars, shutdownCh, mods, modActorCh, modActor>>
    /\ last' = NoLast

\* its InsertOfflineMessage
OtherInsert ==
    /\ offline.other = "insert" /\ offline.stored < MaxStored
    /\ \E err \in StorageErrs :
          offline' = [offline EXCEPT !.stored = IF err = "nil" THEN @ + 1 ELSE @, !.other = "loop"]
    /\ UNCHANGED <<streamVars, shutdownCh, mods, modActorCh, modActor>>
    /\ last' = NoLast

\* DeliverOfflineMessages: o.actorCh <- func() { o.deliverOfflineMessages() }; in the
\* mailbox the closure is the message 0
DeliverOfflineMessages ==
    /\ offline.pc # "none" /\ Len(offline.ch) < MaxOffMailbox
    /\ \A i \in 1..Len(offline.ch) : offline.ch[i] # 0
    /\ offline' = [offline EXCEPT !.ch = Append(@, 0)]
    /\ UNCHANGED <<streamVars, shutdownCh, mods, modActorCh, modActor>>
    /\ last' = NoLast

\* deliverOfflineMessages: storage.Instance().FetchOfflineMessages(o.stm.Username())
OffFetch ==
    /\ offline.pc = "deliverOfflineMessages"
    /\ \E err \in StorageErrs :
          offline' = IF err # "nil" \/ offline.own = {} THEN [offline EXCEPT !.pc = "loop"]
                     ELSE [offline EXCEPT !.pc = "deliver.SendElement",
                                          !.fetched = SelectSeq([i \in 1..MaxOwn |-> i],
                                                                LAMBDA i : i \in offline.own)]
    /\ UNCHANGED <<streamVars, shutdownCh, mods, modActorCh, modActor>>
    /\ last' = NoLast

\* for _, m := range messages { o.stm.SendElement(m) }: SendElement's state check
OffDeliverCall ==
    /\ offline.pc = "deliver.SendElement"
    /\ offline' = IF stm[OffStream].state # disconnected THEN [offline EXCEPT !.pc = "deliver.send"]
                  ELSE [offline EXCEPT !.fetched = Tail(@),
                                       !.pc = IF Tail(offline.fetched) = <<>> THEN "delete" ELSE @]
    /\ UNCHANGED <<streamVars, shutdownCh, mods, modActorCh, modActor>>
    /\ last' = NoLast

\* SendElement's send on the stream's actorCh, for a fetched message
OffDeliverSend ==
    /\ offline.pc = "deliver.send" /\ ~Full(OffStream)
    /\ actorCh' = [actorCh EXCEPT ![OffStream] = Append(@, Cl("send", 0, "", ""))]
    /\ offline' = [offline EXCEPT !.sent = @ \cup {Head(offline.fetched)}, !.fetched = Tail(@),
                                  !.pc = IF Tail(offline.fetched) = <<>> THEN "delete"
                                         ELSE "deliver.SendElement"]
    /\ UNCHANGED <<client, cfg, stm, term, actor, rdRecv, rdHold, pend, tmo, streams, caller, acked>>
    /\ UNCHANGED <<shutdownCh, mods, modActorCh, modActor>>
    /\ last' = NoLast

\* deliverOfflineMessages: storage.Instance().DeleteOfflineMessages(o.stm.Username())
OffDelete ==
    /\ offline.pc = "delete"
    /\ \E err \in StorageErrs :
          offline' = IF err # "nil" THEN [offline EXCEPT !.pc = "loop"]
                     ELSE [offline EXCEPT !.deleted = @ \cup offline.own, !.own = {}, !.pc = "loop"]
    /\ UNCHANGED <<streamVars, shutdownCh, mods, modActorCh, modActor>>
    /\ last' = NoLast

\* the offline module of another stream archives a message m for the stream's
\* user: its CountOfflineMessages and the comparison with QueueSize
OwnCount ==
    /\ offline.pc # "none"
    /\ archiveDecision(Cardinality(offline.own), offline.queueSize) = "insert"
    /\ \E m \in 1..MaxOwn : /\ m \notin offline.own \cup offline.deleted \cup offline.arch
                             /\ offline' = [offline EXCEPT !.arch = @ \cup {m}]
    /\ UNCHANGED <<streamVars, shutdownCh, mods, modActorCh, modActor>>
    /\ last' = NoLast

\* its InsertOfflineMessage, on the count it got
OwnInsert ==
    /\ \E m \in offline.arch, err \in StorageErrs :
          offline' = [offline EXCEPT !.own = IF err = "nil" THEN @ \cup {m} ELSE @,
                                     !.arch = @ \ {m}]
    /\ UNCHANGED <<streamVars, shutdownCh, mods, modActorCh, modActor>>
    /\ last' = NoLast

\* actorLoop: case <-doneCh: return
OffExit ==
    /\ offline.pc = "loop" /\ Count(term[OffStream].steps, "close(doneCh)") > 0
    /\ offline' = [offline EXCEPT !.pc = "exited"]
    /\ UNCHANGED <<streamVars, shutdownCh, mods, modActorCh, modActor>>
    /\ last' = NoLast

(***************************************************************************)
(* newStream, and the specification.                                       *)
(***************************************************************************)
newStream(c) ==
    [state |-> connecting, username |-> "", domain |-> "", resource |-> "", jid |-> EmptyJID,
     secured |-> c.transport # Socket, authenticated |-> FALSE, compressed |-> FALSE,
     presence |-> "none", activeAuth |-> "",
     connectTm |-> IF c.connectTimeout THEN "armed" ELSE "nil"]

Configs == [transport : {Socket, WebSocket}, compression : {TRUE},
            resourceConflict : {Reject},
            sasl : {<<"plain", "scram_sha_1">>}, connectTimeout : {TRUE},
            enabled : {{"last_activity", "private", "vcard", "version"}, {"vcard"}}]

\* the state after newStream for each accepted connection
InitWith(cl, c) ==
    /\ client = cl
    /\ cfg = c
    /\ stm = [s \in Streams |-> newStream(c)]
    /\ term = [s \in Streams |-> [steps |-> <<>>, errs |-> <<>>]]
    /\ actorCh = [s \in Streams |-> <<>>]
    /\ actor = [s \in Streams |-> IF cl[s] = "none" THEN Exited ELSE Loop]
    /\ rdRecv = [s \in Streams |-> IF cl[s] = "none" THEN 0 ELSE 1]
    /\ rdHold = [s \in Streams |-> {}]
    /\ pend = [s \in Streams |-> <<>>]
    /\ tmo = [s \in Streams |-> IF cl[s] = "none" THEN "done" ELSE "idle"]
    /\ streams = {}
    /\ caller = [c1 \in Callers \cup Senders |-> [pc |-> "idle", stm |-> "s1", err |-> ErrNil]]
    /\ acked = {}
    /\ last = NoLast
    /\ shutdownCh = "open"
    /\ mods = Initialize([initialized |-> FALSE, iqHandlers |-> <<>>, gen |-> 0, closes |-> 0],
                         c.enabled)
    /\ modActorCh = [h \in ModuleActors |-> <<>>]
    /\ modActor = [h \in ModuleActors |-> [pc |-> IF h = "disco" \/ h \in c.enabled THEN "loop" ELSE "none",
                                              stm |-> ""]]
    /\ offline = NoOffline

\* one connection, any client, every configuration
Init == \E c \in Configs : InitWith([s \in Streams |-> IF s = "s1" THEN "any" ELSE "none"], c)

Next ==
    \/ \E s \in Streams : Receive(s)
    \/ \E s \in Streams : Post(s)
    \/ \E s \in Streams : TimerFire(s)
    \/ \E s \in Streams : connectTimeout(s)
    \/ \E c \in Callers : DisconnectCall(c)
    \/ \E c \in Callers : DisconnectSend(c)
    \/ \E c \in Callers : DisconnectReturn(c)
    \/ \E c \in Senders : SendElementCall(c)
    \/ \E c \in Senders : SendElementSend(c)
    \/ \E s \in Streams : RunElem(s)
    \/ \E s \in Streams : RunSessionError(s)
    \/ \E s \in Streams : RunDisconnect(s)
    \/ \E s \in Streams : RunTimeout(s)
    \/ \E s \in Streams : RunSend(s)
    \/ \E s \in Streams : BindStart(s)
    \/ \E s \in Streams : BindFinish(s)
    \/ \E s \in Streams : RouteStart(s)
    \/ \E s \in Streams : RouteCall(s)
    \/ \E s \in Streams : RouteDeliver(s)

Spec == Init /\ [][Next]_vars

\* two connections of plain clients of the same user, over WebSocket, without connect
\* timeout and without other callers of Disconnect, under each resource conflict policy
BindConfigs == [transport : {WebSocket}, compression : {TRUE},
                resourceConflict : {Reject, Override, Replace},
                sasl : {<<"plain", "scram_sha_1">>}, connectTimeout : {FALSE},
                enabled : {{"vcard"}}]

NextBind ==
    \/ \E s \in Streams : Receive(s)
    \/ \E s \in Streams : Post(s)
    \/ \E s \in Streams : RunElem(s)
    \/ \E s \in Streams : RunSessionError(s)
    \/ \E s \in Streams : RunDisconnect(s)
    \/ \E s \in Streams : RunSend(s)
    \/ \E s \in Streams : BindStart(s)
    \/ \E s \in Streams : ReplaceSend(s)
    \/ \E s \in Streams : ReplaceWait(s)
    \/ \E s \in Streams : BindFinish(s)
    \/ \E s \in Streams : RouteStart(s)
    \/ \E s \in Streams : RouteCall(s)
    \/ \E s \in Streams : RouteDeliver(s)
    \/ \E s \in Streams : ProcessIQStart(s)
    \/ \E s \in Streams : ProcessIQSend(s)
    \/ \E h \in ModuleActors : ModTake(h)
    \/ \E h \in ModuleActors : ModRoute(h)
    \/ \E h \in ModuleActors : ModDeliver(h)

SpecBind == (\E c \in BindConfigs : InitWith([s \in Streams |-> "plain"], c)) /\ [][NextBind]_vars

\* one connection of a client that has bound a resource and started its session
\* and sends IQs for the modules, the modules with an actor initialized
ModConfigs == [transport : {WebSocket}, compression : {TRUE},
               resourceConflict : {Reject},
               sasl : {<<"plain", "scram_sha_1">>}, connectTimeout : {TRUE},
               enabled : {{"last_activity", "private", "vcard"}}]
sessionStartedStream(c) ==
    [newStream(c) EXCEPT !.state = sessionStarted, !.authenticated = TRUE,
                         !.username = "ortuman", !.domain = LocalDomain, !.resource = "balcony",
                         !.jid = JID("ortuman", LocalDomain, "balcony"), !.connectTm = "nil"]
\* the session-started stream s1 of a plain client, the modules initialized, and
\* the offline module off
InitSessionStarted(cl, c, off) ==
    /\ client = [s \in Streams |-> IF s = "s1" THEN cl ELSE "none"]
    /\ cfg = c
    /\ stm = [s \in Streams |-> IF s = "s1" THEN sessionStartedStream(c) ELSE newStream(c)]
    /\ term = [s \in Streams |-> [steps |-> <<>>, errs |-> <<>>]]
    /\ actorCh = [s \in Streams |-> <<>>]
    /\ actor = [s \in Streams |-> IF s = "s1" THEN Loop ELSE Exited]
    /\ rdRecv = [s \in Streams |-> IF s = "s1" THEN 1 ELSE 0]
    /\ rdHold = [s \in Streams |-> {}]
    /\ pend = [s \in Streams |-> <<>>]
    /\ tmo = [s \in Streams |-> IF s = "s1" THEN "idle" ELSE "done"]
    /\ streams = {[stm |-> "s1", node |-> "ortuman", domain |-> LocalDomain, resource |-> "balcony"]}
    /\ caller = [c1 \in Callers \cup Senders |-> [pc |-> "idle", stm |-> "s1", err |-> ErrNil]]
    /\ acked = {}
    /\ last = NoLast
    /\ shutdownCh = "open"
    /\ mods = Initialize([initialized |-> FALSE, iqHandlers |-> <<>>, gen |-> 0, closes |-> 0],
                         c.enabled)
    /\ modActorCh = [h \in ModuleActors |-> <<>>]
    /\ modActor = [h \in ModuleActors |-> [pc |-> IF h = "disco" \/ h \in c.enabled THEN "loop" ELSE "none",
                                              stm |-> ""]]
    /\ offline = off


NextMod ==
    \/ \E s \in Streams : Receive(s)
    \/ \E s \in Streams : Post(s)
    \/ \E s \in Streams : RunElem(s)
    \/ \E s \in Streams : ProcessIQStart(s)
    \/ \E s \in Streams : ProcessIQSend(s)
    \/ \E s \in Streams : RunSessionError(s)
    \/ \E s \in Streams : RunSend(s)
    \/ \E h \in ModuleActors : ModTake(h)
    \/ \E h \in ModuleActors : ModRoute(h)
    \/ \E h \in ModuleActors : ModDeliver(h)
    \/ \E h \in ModuleActors : ModExit(h)
    \/ ShutdownCall

SpecMod == (\E c \in ModConfigs : InitSessionStarted("iq", c, NoOffline)) /\ [][NextMod]_vars

\* one connection of a client that has started its session and sends every stanza,
\* under each set of enabled modules, and the modules' actors
NextIQ ==
    \/ \E s \in Streams : Receive(s)
    \/ \E s \in Streams : Post(s)
    \/ \E s \in Streams : RunElem(s)
    \/ \E s \in Streams : RunSessionError(s)
    \/ \E s \in Streams : RunSend(s)
    \/ \E s \in Streams : RouteStart(s)
    \/ \E s \in Streams : RouteCall(s)
    \/ \E s \in Streams : RouteDeliver(s)
    \/ \E s \in Streams : ProcessIQStart(s)
    \/ \E s \in Streams : ProcessIQSend(s)
    \/ \E h \in ModuleActors : ModTake(h)
    \/ \E h \in ModuleActors : ModRoute(h)
    \/ \E h \in ModuleActors : ModDeliver(h)

SpecIQ ==
    /\ \E c \in {x \in Configs : x.transport = WebSocket} : InitSessionStarted("all", c, NoOffline)
    /\ [][NextIQ]_vars

(***************************************************************************)
(* The module package alone: calls of Initialize and Shutdown in any order *)
(* and the modules' actors leaving their loops.                            *)
(***************************************************************************)

NextLife ==
    \/ InitializeCall
    \/ ShutdownCall
    \/ \E h \in ModuleActors : ModExit(h)

SpecLife == (\E c \in Configs : InitWith([s \in Streams |-> "none"], c)) /\ [][NextLife]_vars

\* the session-started stream with its offline module (offline.New), for each
\* QueueSize and each number of messages, up to QueueSize, the recipient's queue holds
InitOff ==
    \E c \in ModConfigs, q \in {1, 2}, stored \in 0..MaxStored :
        /\ stored <= q
        /\ InitSessionStarted("plain", c, Off(q, stored, <<>>, "loop", 0, 0, 1, <<>>))

NextOff ==
    \/ \E s \in Streams : Receive(s)
    \/ \E s \in Streams : Post(s)
    \/ \E s \in Streams : RunSessionError(s)
    \/ \E s \in Streams : RunSend(s)
    \/ \E s \in Streams : RouteStart(s)
    \/ \E s \in Streams : RouteCall(s)
    \/ \E s \in Streams : RouteDeliver(s)
    \/ ArchiveMessage
    \/ OffTake
    \/ OffCount
    \/ OffBounce
    \/ OffSend
    \/ OffInsert
    \/ OtherCount
    \/ OtherInsert
    \/ OffExit

SpecOff == InitOff /\ [][NextOff]_vars

\* the session-started stream with its offline module delivering the messages
\* archived for its user
NextDeliver ==
    \/ \E s \in Streams : Receive(s)
    \/ \E s \in Streams : Post(s)
    \/ \E s \in Streams : RunSessionError(s)
    \/ \E s \in Streams : RunSend(s)
    \/ \E s \in Streams : RouteStart(s)
    \/ \E s \in Streams : RouteCall(s)
    \/ \E s \in Streams : RouteDeliver(s)
    \/ DeliverOfflineMessages
    \/ OffTake
    \/ OffFetch
    \/ OffDeliverCall
    \/ OffDeliverSend
    \/ OffDelete
    \/ OwnCount
    \/ OwnInsert
    \/ OffExit

SpecDeliver == InitOff /\ [][NextDeliver]_vars

(***************************************************************************)
(* Properties.                                                             *)
(***************************************************************************)

\* C1: in every reachable state, a stream whose state is sessionStarted has a JID
\* with node, domain and resource all non-empty and is authenticated, also when a
\* compression restart happened between resource binding and session start
C1_SessionStartedFullJID ==
    LET IsFullJID(j) == j.node # "" /\ j.domain # "" /\ j.resource # ""
    IN
        \A s \in Conns : stm[s].state = sessionStarted => IsFullJID(stm[s].jid) /\ stm[s].authenticated

\* C2: under each resource conflict policy and for every interleaving of the bind
\* requests of several streams, no two live streams have completed resource binding
\* with the same user, domain and resource
C2_OneLiveStreamPerResource ==
    LET \* a live stream that completed resource binding
        Bound(s) == s \in Conns /\ stm[s].state # disconnected /\ stm[s].resource # ""
    IN
        \A a, b \in Streams :
            (a # b /\ Bound(a) /\ Bound(b)) =>
                ~(/\ stm[a].username = stm[b].username
                  /\ stm[a].domain = stm[b].domain
                  /\ stm[a].resource = stm[b].resource)

\* the stream has an entry in the router's registry
Registered(s) == \E e \in streams : e.stm = s

\* C3 as stated: for every error value e, after Disconnect(e) returns the stream's
\* state is disconnected and the stream is absent from the router's registry
C3_AbsentAfterDisconnect ==
    LET \* the caller's Disconnect has returned
        Returned(c) == caller[c].pc = "returned"
    IN
        \A c \in Callers :
            Returned(c) => stm[caller[c].stm].state = disconnected /\ ~Registered(caller[c].stm)

\* C3 amended: after Disconnect(e) returns the stream's state is disconnected, and
\* the stream is absent from the router's registry unless its close sequence ran
\* for the stream error system-shutdown, which does not unregister
C3_AbsentUnlessSystemShutdown ==
    LET \* the caller's Disconnect has returned
        Returned(c) == caller[c].pc = "returned"
    IN
        \A c \in Callers :
            Returned(c) =>
                /\ stm[caller[c].stm].state = disconnected
                /\ Registered(caller[c].stm) => term[caller[c].stm].errs = <<ErrSystemShutdown>>

\* Disconnect(nil) of a bound stream has returned, and the stream was unbound
C3_Witness ==
    LET \* the caller's Disconnect has returned
        Returned(c) == caller[c].pc = "returned"
    IN
        \E c \in Callers :
            /\ Returned(c) /\ caller[c].err = ErrNil
            /\ stm[caller[c].stm].resource # "" /\ ~Registered(caller[c].stm)
            /\ Count(term[caller[c].stm].steps, "router.Unbind") = 1

\* C4: every call of Disconnect returns, and only once the stream is disconnected:
\* no caller (another goroutine, or the actor of a stream applying the Replace
\* policy) is left sending to the mailbox or waiting for the acknowledgement of a
\* stream whose actor has returned from loop, which runs no closure any more
C4_DisconnectReturns ==
    LET \* the caller's Disconnect has returned
        Returned(c) == caller[c].pc = "returned"
    IN
        /\ \A c \in Callers : Returned(c) => stm[caller[c].stm].state = disconnected
        /\ \A c \in Callers :
              (caller[c].pc = "wait" /\ c \notin acked) => actor[caller[c].stm].pc # "exited"
        /\ \A c \in Callers :
              (caller[c].pc = "send" /\ Full(caller[c].stm)) => actor[caller[c].stm].pc # "exited"
        /\ \A s \in Conns :
              (actor[s].pc = "Disconnect.wait" /\ s \notin acked) => actor[actor[s].peer].pc # "exited"

\* C5: for every interleaving of disconnect triggers on one stream the close
\* sequence runs at most once: the done channel is closed at most once, the stream is
\* unbound at most once, the session is closed and a stream error emitted at most
\* once, the transport is closed at most once
C5_CloseSequenceOnce ==
    \A s \in Conns :
        /\ Count(term[s].steps, "close(doneCh)") <= 1
        /\ Count(term[s].steps, "router.Unbind") <= 1
        /\ Count(term[s].steps, "sess.Close") <= 1
        /\ Count(term[s].steps, "inContainer.delete") <= 1
        /\ Count(term[s].steps, "transport.Close") <= 1
        /\ Len(term[s].errs) <= 1

\* the close sequence of a stream has run and another disconnect trigger is in its mailbox
C5_Witness ==
    \E s \in Conns :
        /\ stm[s].state = disconnected
        /\ Count(term[s].steps, "transport.Close") = 1
        /\ \E i \in 1..Len(actorCh[s]) : actorCh[s][i].k \in {"disc", "tmo", "serr"}

\* C6: a message whose routing returned ResourceNotFound is re-addressed to the
\* recipient's bare JID and routed once more, and then its processing ends: the
\* router is called at most twice for one message, the second time with a bare JID
C6_RouteAtMostTwice ==
    LET IsBare(j) == j.node # "" /\ j.resource = ""
    IN
        \A s \in Conns :
            (actor[s].pc \in {"route", "SendElement"} /\ actor[s].el.name = "message") =>
                /\ actor[s].n <= 2
                /\ actor[s].pc = "route" => actor[s].n <= 1
                /\ (actor[s].pc = "route" /\ actor[s].n = 1) => IsBare(actor[s].el.to)

\* C7: a stanza error reported by the session's Receive is not fatal: when its
\* closure has run, the stream has written one error stanza, is in the state it was
\* in, and a reader is running, so that what the client sends next is read
C7_StanzaErrorContinues ==
    LET \* the doRead goroutines of a stream: in Receive, before the mailbox send, or with
        \* their closure in the mailbox
        Readers(s) ==
            rdRecv[s] + Cardinality(rdHold[s])
            + Cardinality({i \in 1..Len(actorCh[s]) : actorCh[s][i].k \in {"elem", "serr"}})
    IN
        \A s \in Conns :
            (last.stm = s /\ last.in.name = "session-error" /\ last.in.env = "stanza-error") =>
                /\ stm[s].state = last.pre
                /\ last.out = <<(<<"stanza", "error", "bad-request">>)>>
                /\ Readers(s) > 0

\* C8 as stated: the state of a stream never moves to an earlier state, except to
\* connecting from connected or authenticated (restartSession)
C8_OnlyRestartsGoBack ==
    [][\A s \in Streams :
          stm'[s].state < stm[s].state =>
              stm'[s].state = connecting /\ stm[s].state \in {connected, authenticated}]_vars

\* C8 amended: the state of a stream moves to an earlier state only by restartSession,
\* to connecting, from connected (a TLS upgrade, an authentication that <auth>
\* completes), from authenticating (an authentication that a <response> completes)
\* and from authenticated (a compression upgrade), and by failAuthentication, from
\* authenticating to connected, when a <response> fails the authentication
C8_GoesBackByRestartOrFailure ==
    [][\A s \in Streams :
          stm'[s].state < stm[s].state =>
              /\ last'.stm = s
              /\ \/ /\ stm[s].state = connected /\ stm'[s].state = connecting
                    /\ last'.in.name \in {"starttls", "auth"}
                 \/ /\ stm[s].state = authenticated /\ stm'[s].state = connecting
                    /\ last'.in.name = "compress"
                 \/ /\ stm[s].state = authenticating /\ stm'[s].state = connecting
                    /\ last'.in.name = "response" /\ stm'[s].authenticated
                 \/ /\ stm[s].state = authenticating /\ stm'[s].state = connected
                    /\ last'.in.name = "response" /\ ~stm'[s].authenticated]_vars

\* a <response> has failed the authentication of a stream in authenticating
C8_Witness ==
    /\ last.stm \in Conns /\ last.pre = authenticating /\ last.in.name = "response"
    /\ stm[last.stm].state = connected

\* C9: under the Replace policy, when a stream B has bound the resource that a bound
\* stream A of the same user owns, A has been disconnected (with stream error
\* resource-constraint) and unbound by the time B's bind result is emitted with the
\* requested resource
C9_ReplaceDisconnectsOwner ==
    cfg.resourceConflict = Replace =>
        \A a, b \in Streams :
            (/\ a # b /\ last.stm = b /\ last.in.child = "bind/resource" /\ last.in.text # ""
             /\ last.out = <<(<<"iq", "result", "bind", stm[b].username, stm[b].domain, last.in.text>>)>>
             /\ stm[a].username = stm[b].username /\ stm[a].domain = stm[b].domain
             /\ stm[a].resource = last.in.text) =>
                /\ stm[a].state = disconnected
                /\ ~Registered(a)

\* C10: the inbound elements of a stream are handled in the order Receive returned
\* them, one at a time: the element the actor takes up is the oldest one Receive
\* returned and it is taken up when the actor is back in loop, in every state
C10_HandledInReceiveOrder ==
    [][\A s \in Streams :
          pend'[s] # pend[s] =>
              \/ /\ Len(pend'[s]) = Len(pend[s]) + 1
                 /\ SubSeq(pend'[s], 1, Len(pend[s])) = pend[s]
              \/ /\ pend[s] # <<>> /\ pend'[s] = Tail(pend[s])
                 /\ actor[s].pc = "loop"]_vars

\* after the stream restarts of the negotiation, compression included, Receive has
\* returned the next element of a stream in sessionStarted
C10_Witness ==
    \E s \in Conns : stm[s].state = sessionStarted /\ stm[s].compressed /\ pend[s] # <<>>

\* C11: once the first inbound element of a stream has been handled in connecting,
\* which cancels the connect timer, the stream is never disconnected with
\* connection-timeout, however the firing of the timer and the reading of the first
\* element interleave; and the timer posts at most one disconnect
C11_NoTimeoutAfterOpen ==
    \A s \in Conns :
        /\ (cfg.connectTimeout /\ stm[s].connectTm = "nil") =>
              ErrConnectionTimeout \notin {term[s].errs[i] : i \in 1..Len(term[s].errs)}
        /\ Cardinality({i \in 1..Len(actorCh[s]) : actorCh[s][i].k = "tmo"}) <= 1

\* the closure that just ended handled, in sessionStarted, an IQ that is answered
\* on behalf
AnsweredOnBehalf ==
    /\ last.stm \in Conns /\ last.pre = sessionStarted /\ last.in.name = "iq"
    /\ ~isBlockedJID(last.in)
    /\ ~IsFullWithUser(last.in.to) /\ IsLocalHost(last.in.to.domain)
Matching(iq) == {i \in 1..Len(IQHandlers) : MatchesIQ(IQHandlers[i], iq)}

\* C12: in sessionStarted, an IQ of type get or set addressed to the local server
\* that no registered handler matches gets exactly one service-unavailable error
\* with the IQ's id and no handler gets ProcessIQ; an unmatched IQ of another type
\* gets no response
C12_UnmatchedIQ ==
    LET \* the handlers that got ProcessIQ in the closure that just ended
        Processed == SelectSeq(last.calls, LAMBDA c : c[1] = "ProcessIQ")
    IN
        (AnsweredOnBehalf /\ last.in.to = ServerJID /\ Matching(last.in) = {}) =>
            /\ Processed = <<>>
            /\ last.out = IF last.in.type \in {"get", "set"}
                          THEN <<(<<"iq", "error", "service-unavailable", last.in.id>>)>>
                          ELSE <<>>

\* an unmatched get with an id has been answered
C12_Witness ==
    /\ AnsweredOnBehalf /\ Matching(last.in) = {}
    /\ last.in.type = "get" /\ last.in.id = "q2" /\ last.out # <<>>

\* the stream errors among the elements the closure that just ended wrote
StreamErrorsWritten == SelectSeq(last.out, LAMBDA e : e[1] = "stream:error")

\* C13: a <message> or <presence> handled in connected yields exactly one
\* <stream:error> with condition not-authorized and the stream is disconnected;
\* nothing is routed
C13_StanzaInConnected ==
    (last.stm \in Conns /\ last.pre = connected /\ last.in.name \in {"message", "presence"}) =>
        /\ StreamErrorsWritten = <<(<<"stream:error", ErrNotAuthorized>>)>>
        /\ term[last.stm].errs = <<ErrNotAuthorized>>
        /\ stm[last.stm].state = disconnected
        /\ actor[last.stm].pc = "exited"
        /\ last.calls = <<>>

\* a <presence> has been handled in connected
C13_Witness ==
    last.stm \in Conns /\ last.pre = connected /\ last.in.name = "presence"

\* C14 as stated: a <starttls> handled when the stream is already secured yields a
\* <stream:error> with condition not-authorized and disconnects the stream, in every
\* state; TLS is never started twice on one stream
C14_SecuredStartTLSNotAuthorized ==
    LET \* the closure that just ended handled a <starttls> of a stream that was secured
        StartTLSWhenSecured ==
            /\ last.stm \in Conns /\ last.in.name = "starttls" /\ last.pre # connecting
            /\ stm[last.stm].secured
            /\ ~\E i \in 1..Len(last.out) : last.out[i] = <<"proceed">>
    IN
        /\ StartTLSWhenSecured =>
              /\ StreamErrorsWritten = <<(<<"stream:error", ErrNotAuthorized>>)>>
              /\ stm[last.stm].state = disconnected
        /\ \A s \in Conns : Count(term[s].steps, "transport.StartTLS") <= 1

\* C14 amended: a <starttls> handled when the stream is already secured yields one
\* <stream:error> and disconnects the stream; the condition is not-authorized in
\* connected, invalid-namespace in authenticating (the element is not in the SASL
\* namespace) and unsupported-stanza-type in authenticated and sessionStarted; TLS is
\* never started twice on one stream
C14_SecuredStartTLSDisconnects ==
    LET \* the closure that just ended handled a <starttls> of a stream that was secured
        StartTLSWhenSecured ==
            /\ last.stm \in Conns /\ last.in.name = "starttls" /\ last.pre # connecting
            /\ stm[last.stm].secured
            /\ ~\E i \in 1..Len(last.out) : last.out[i] = <<"proceed">>
    IN
        /\ StartTLSWhenSecured =>
              /\ StreamErrorsWritten =
                    <<(<<"stream:error",
                         CASE last.pre = connected -> ErrNotAuthorized
                           [] last.pre = authenticating -> ErrInvalidNamespace
                           [] OTHER -> ErrUnsupportedStanzaType>>)>>
              /\ stm[last.stm].state = disconnected
        /\ \A s \in Conns : Count(term[s].steps, "transport.StartTLS") <= 1

\* a second <starttls> has been handled in connected, after TLS was started
C14_Witness ==
    LET \* the closure that just ended handled a <starttls> of a stream that was secured
        StartTLSWhenSecured ==
            /\ last.stm \in Conns /\ last.in.name = "starttls" /\ last.pre # connecting
            /\ stm[last.stm].secured
            /\ ~\E i \in 1..Len(last.out) : last.out[i] = <<"proceed">>
    IN
        /\ StartTLSWhenSecured /\ last.pre = connected
        /\ Count(term[last.stm].steps, "transport.StartTLS") = 1

\* C15: under the Reject policy a bind request for a resource that another stream
\* of the same user owns is answered with a conflict error IQ and changes nothing
\* else: the requesting stream keeps its empty resource, its JID and its state and
\* is not registered, the owner stays bound and connected
C15_RejectAnswersConflict ==
    [][LET \* a live stream that completed resource binding
           Bound(s) == s \in Conns /\ stm[s].state # disconnected /\ stm[s].resource # ""
           \* the actor of stream b takes up, in this step, a bind request for resource r
           TakesBindRequest(b, r) ==
               /\ Ready(b, "elem") /\ stm[b].state = authenticated /\ stm[b].resource = ""
               /\ actorCh'[b] = Tail(actorCh[b])
               /\ LET iq == IF actor'[b].pc \in {"loop", "exited"} THEN last'.in ELSE actor'[b].el
                  IN  iq.name = "iq" /\ iq.child = "bind/resource" /\ iq.text = r
           \* stream a is live, bound and registered with the resource r of the user of stream b
           OwnsResource(a, b, r) ==
               /\ a # b /\ Bound(a) /\ Registered(a) /\ actor[a].pc = "loop"
               /\ stm[a].username = stm[b].username /\ stm[a].domain = stm[b].domain
               /\ stm[a].resource = r
       IN  cfg.resourceConflict = Reject =>
              \A a, b \in Streams :
                  (OwnsResource(a, b, "balcony") /\ TakesBindRequest(b, "balcony")) =>
                      /\ last'.stm = b
                      /\ last'.out = <<(<<"iq", "error", "conflict">>)>>
                      /\ stm' = stm
                      /\ streams' = streams]_vars

\* C16: an <auth> in connected whose mechanism equals no configured authenticator's
\* mechanism yields one SASL <failure> with <invalid-mechanism/>; the stream stays
\* in connected, no authenticator processes the element, and the authenticated flag
\* and the username (all fields of the stream) are unchanged
C16_InvalidMechanism ==
    [][LET \* the closure that this step ends handled, in connected, an <auth> in the SASL
           \* namespace whose mechanism no configured authenticator has
           UnknownMechanism(s) ==
               /\ last'.stm = s /\ last'.pre = connected
               /\ last'.in.name = "auth" /\ last'.in.ns = saslNamespace
               /\ \A i \in 1..Len(initializeAuthenticators(cfg.sasl)) :
                     initializeAuthenticators(cfg.sasl)[i] # last'.in.text
       IN  \A s \in Streams :
              UnknownMechanism(s) =>
                  /\ last'.out = <<(<<"failure", "invalid-mechanism">>)>>
                  /\ last'.calls = <<>>
                  /\ stm'[s] = stm[s]
                  /\ stm'[s].state = connected]_vars

\* an <auth mechanism='plain'>, which is not the mechanism PLAIN, has been handled
C16_Witness ==
    /\ last.stm \in Conns /\ last.pre = connected /\ last.in.name = "auth"
    /\ last.in.ns = saslNamespace /\ last.in.text = "plain"

\* C17: a SendElement call on a stream whose state is disconnected returns without
\* putting anything into the mailbox, and nothing is written to the session of a
\* disconnected stream: its actor has exited and no closure of it runs any more
C17_DroppedWhenDisconnected ==
    /\ [][\A c \in Senders :
              LET \* the step is a SendElement call by c on a stream whose state is disconnected
                  CalledOnDisconnected ==
                      /\ caller[c].pc = "idle" /\ caller'[c].pc # "idle"
                      /\ stm[caller'[c].stm].state = disconnected
              IN  CalledOnDisconnected =>
                      /\ caller'[c].pc = "dropped"
                      /\ actorCh' = actorCh
                      /\ term' = term]_vars
    /\ [][\A s \in Conns : stm[s].state = disconnected => last'.stm # s]_vars

\* SendElement has returned from its state check on a disconnected stream
C17_Witness ==
    \E c \in Senders : caller[c].pc = "dropped" /\ stm[caller[c].stm].state = disconnected

\* C18: every SendElement call returns, also when it races with the stream
\* disconnecting while the mailbox is full: no call is ever left at its send to a
\* full mailbox whose actor loop has exited
C18_SendElementReturns ==
    LET \* c is inside SendElement, at the send to a full mailbox that no actor receives from
        BlockedForever(c) ==
            /\ caller[c].pc = "send"
            /\ Full(caller[c].stm) /\ actor[caller[c].stm].pc = "exited"
    IN
        \A c \in Senders : ~BlockedForever(c)

\* C19: for an IQ answered on behalf that some registered handler matches, the
\* handlers are asked MatchesIQ in registration order up to the first that matches,
\* that handler and no other gets ProcessIQ, exactly once, no later handler is
\* asked and nothing (no service-unavailable) is written
C19_FirstMatchingHandler ==
    LET \* the handlers that got ProcessIQ in the closure that just ended
        Processed == SelectSeq(last.calls, LAMBDA c : c[1] = "ProcessIQ")
        \* the handlers that were asked MatchesIQ in the closure that just ended
        Asked == SelectSeq(last.calls, LAMBDA c : c[1] = "MatchesIQ")
        \* the position in IQHandlers of the first handler that matches the IQ
        FirstMatching(iq) == CHOOSE i \in Matching(iq) : \A j \in Matching(iq) : i <= j
    IN
        (AnsweredOnBehalf /\ Matching(last.in) # {}) =>
            LET f == FirstMatching(last.in)
            IN  /\ Processed = <<(<<"ProcessIQ", IQHandlers[f], last.in.id>>)>>
                /\ Asked = [i \in 1..f |-> <<"MatchesIQ", IQHandlers[i], last.in.id>>]
                /\ last.calls = Asked \o Processed
                /\ last.out = <<>>

\* an IQ that two registered handlers match, the first of them not the first
\* registered, has been handled
C19_Witness ==
    LET \* the handlers that got ProcessIQ in the closure that just ended
        Processed == SelectSeq(last.calls, LAMBDA c : c[1] = "ProcessIQ")
        \* the position in IQHandlers of the first handler that matches the IQ
        FirstMatching(iq) == CHOOSE i \in Matching(iq) : \A j \in Matching(iq) : i <= j
    IN
        /\ AnsweredOnBehalf /\ Cardinality(Matching(last.in)) > 1
        /\ FirstMatching(last.in) > 1 /\ Len(Processed) = 1

\* C20: after the shared shutdown channel is closed every module actor loop exits,
\* the closure it is executing having run to completion: once the channel is
\* closed no module actor is left inside a closure that can never complete
C20_ModuleLoopsExit ==
    LET \* the actor of module h is inside a closure, at SendElement's send to a full
        \* mailbox that no actor receives from: it never gets back to its select
        ModBlockedForever(h) ==
            /\ modActor[h].pc = "SendElement"
            /\ Full(modActor[h].stm) /\ actor[modActor[h].stm].pc = "exited"
    IN
        shutdownCh = "closed" => \A h \in ModuleActors : ~ModBlockedForever(h)

\* C21: the offline module inserts a message only if the count it took before the
\* insert is below QueueSize; with a count of QueueSize or more it stores nothing
\* and calls the stream's SendElement exactly once with the service-unavailable
\* bounce of that message; no message is both stored and bounced, or handled twice
C21_ArchiveBelowQueueSize ==
    /\ [](LET \* what archiveMessage decided for the messages handed to the offline module
                Archived == SelectSeq(offline.log, LAMBDA e : e[1] = "insert")
                Bounced == SelectSeq(offline.log, LAMBDA e : e[1] = "SendElement")
            IN  /\ \A i \in 1..Len(Archived) : Archived[i][3] < offline.queueSize
                /\ \A i \in 1..Len(Bounced) : Bounced[i][3] >= offline.queueSize
                /\ \A i, j \in 1..Len(offline.log) : i # j => offline.log[i][2] # offline.log[j][2])
    /\ [][/\ (offline.pc = "SendElement" /\ offline'.pc # "SendElement") =>
                 /\ offline'.stored = offline.stored
                 /\ offline'.log = Append(offline.log, <<"SendElement", offline.msg, offline.n>>)
                 /\ offline.n >= offline.queueSize
          /\ (offline.pc = "send" /\ offline'.pc # "send") =>
                 /\ actorCh'[OffStream] = Append(actorCh[OffStream], Cl("send", 0, "", ""))
                 /\ offline'.stored = offline.stored
          /\ (offline.pc = "insert" /\ offline'.stored # offline.stored) =>
                 /\ offline.n < offline.queueSize
                 /\ offline'.stored = offline.stored + 1]_vars

\* one message has been stored and a later one bounced, and the stream has
\* written the bounce
C21_Witness ==
    LET \* what archiveMessage decided for the messages handed to the offline module
        Archived == SelectSeq(offline.log, LAMBDA e : e[1] = "insert")
        Bounced == SelectSeq(offline.log, LAMBDA e : e[1] = "SendElement")
    IN
        /\ Len(Archived) > 0 /\ Len(Bounced) > 0
        /\ last.stm = OffStream /\ last.in.name = "SendElement"

\* C22 as stated: the disco module's MatchesIQ returns true exactly when the IQ has
\* type get and some <query> child in the namespace disco#info or disco#items
C22_DiscoMatchesSomeQuery ==
    LET \* the disco module got ProcessIQ in the closure that just ended, which is the
        \* case exactly when its MatchesIQ, asked first, returned true
        DiscoMatched == \E i \in 1..Len(last.calls) : last.calls[i][1] = "ProcessIQ" /\ last.calls[i][2] = "disco"
        DiscoNamespaces == {"disco#info", "disco#items"}
    IN
        AnsweredOnBehalf =>
            (DiscoMatched <=> (last.in.type = "get" /\ \E ns \in DiscoNamespaces : HasChild(last.in, ns)))

\* C22: the disco module's MatchesIQ returns true exactly when the IQ has type get
\* and its first <query> child is in the namespace disco#info or disco#items (false
\* without a <query>, with a first <query> of another namespace, and for the types
\* set, result and error); asking it changes no field of the stream and no
\* registry entry
C22_DiscoMatchesFirstQuery ==
    /\ [](LET \* the handlers that were asked MatchesIQ in the closure that just ended
                Asked == SelectSeq(last.calls, LAMBDA c : c[1] = "MatchesIQ")
                \* the disco module got ProcessIQ in the closure that just ended, which is the
                \* case exactly when its MatchesIQ, asked first, returned true
                DiscoMatched == \E i \in 1..Len(last.calls) : last.calls[i][1] = "ProcessIQ" /\ last.calls[i][2] = "disco"
                DiscoNamespaces == {"disco#info", "disco#items"}
            IN  AnsweredOnBehalf =>
                    /\ Asked # <<>> /\ Asked[1][2] = "disco"
                    /\ DiscoMatched <=> (last.in.type = "get" /\ FirstQuery(last.in) \in DiscoNamespaces))
    /\ [][\A s \in Conns :
              (last'.stm = s /\ last'.pre = sessionStarted /\ last'.in.name = "iq"
               /\ ~IsFullWithUser(last'.in.to) /\ IsLocalHost(last'.in.to.domain)
               /\ ~isBlockedJID(last'.in)) =>
                  (stm' = stm /\ streams' = streams /\ term' = term)]_vars

\* a get whose first <query> is not a disco query and whose second is one has been
\* handled: the disco module did not match it
C22_Witness ==
    LET \* the disco module got ProcessIQ in the closure that just ended, which is the
        \* case exactly when its MatchesIQ, asked first, returned true
        DiscoMatched == \E i \in 1..Len(last.calls) : last.calls[i][1] = "ProcessIQ" /\ last.calls[i][2] = "disco"
    IN
        /\ AnsweredOnBehalf /\ last.in.type = "get"
        /\ ~DiscoMatched /\ HasChild(last.in, "disco#info")

\* C23: on a socket transport a stream whose secured flag is false is not
\* authenticated and is not in authenticating: no <auth> is processed before
\* STARTTLS has completed
C23_NoAuthBeforeTLS ==
    \A s \in Conns :
        (cfg.transport = Socket /\ ~stm[s].secured) =>
            (~stm[s].authenticated /\ stm[s].state # authenticating)

\* C24: disconnect with a nil error closes the session (the closing stream
\* envelope is written), closes the done channel, unregisters the stream from the
\* router, clears the container entry, sets the state to disconnected and closes
\* the transport, in that order
C24_NilDisconnectSequence ==
    LET \* the steps of the close sequence that stream s has run, in order
        CloseSteps == {"sess.Close", "close(doneCh)", "router.Unbind", "inContainer.delete",
                       "setState(disconnected)", "transport.Close"}
        CloseSequence(s) == SelectSeq(term[s].steps, LAMBDA x : x \in CloseSteps)
        \* the closure that just ended ran disconnect(err) on a stream that was not disconnected
        Disconnected(err) ==
            /\ last.stm \in Conns /\ last.pre # disconnected
            /\ last.in.name \in {"Disconnect", "session-error"} /\ last.in.env = err
    IN
        Disconnected(ErrNil) =>
            /\ CloseSequence(last.stm) = <<"sess.Close", "close(doneCh)", "router.Unbind",
                                           "inContainer.delete", "setState(disconnected)",
                                           "transport.Close">>
            /\ last.out = <<(<<"/stream:stream">>)>>
            /\ stm[last.stm].state = disconnected /\ ~Registered(last.stm)

\* C26: disconnect with a non-nil error that is not a stream error closes the
\* stream as undefined-condition: the closure writes one <stream:error> with the
\* condition undefined-condition and the stream is disconnected
C26_OtherErrorUndefinedCondition ==
    (/\ last.stm \in Conns /\ last.pre # disconnected /\ last.in.name = "Disconnect"
     /\ last.in.env \notin StreamErrors \cup {ErrNil}) =>
        /\ StreamErrorsWritten = <<(<<"stream:error", ErrUndefinedCondition>>)>>
        /\ stm[last.stm].state = disconnected

\* C25: a closure that disconnects a stream with a stream error writes the opening
\* stream envelope first if the stream was in connecting, then exactly one
\* <stream:error>, then closes the session (the closing envelope); the stream ends
\* disconnected, and its registry entry is removed for every condition except
\* system-shutdown, for which the registry is left as it was
C25_StreamErrorDisconnect ==
    [][\A s \in Conns :
          LET errs == SelectSeq(last'.out, LAMBDA e : e[1] = "stream:error")
          IN  (last'.stm = s /\ errs # <<>>) =>
                  /\ Len(errs) = 1
                  /\ last'.out = (IF last'.pre = connecting THEN <<(<<"stream:stream">>)>> ELSE <<>>)
                                  \o <<errs[1], <<"/stream:stream">> >>
                  /\ stm'[s].state = disconnected
                  /\ Count(term'[s].steps, "sess.Close") = 1
                  /\ streams' = IF errs[1][2] = ErrSystemShutdown THEN streams ELSE Unbind(streams, s)]_vars

\* a bound stream has been disconnected with system-shutdown and is still registered
C25_Witness ==
    /\ last.stm \in Conns /\ StreamErrorsWritten = <<(<<"stream:error", ErrSystemShutdown>>)>>
    /\ Registered(last.stm) /\ stm[last.stm].state = disconnected

\* C27: when an authenticator's ProcessElement returns an error, in connected or
\* in authenticating, the stream writes exactly one SASL <failure> (the typed
\* condition, or temporary-auth-failure for another error), the authenticator
\* that processed the element is reset, no authenticator is active afterwards and
\* the state is connected
C27_AuthErrorResets ==
    LET \* the authenticators' ProcessElement and Reset calls of the closure that just ended
        ProcessElementCalls == SelectSeq(last.calls, LAMBDA c : c[1] = "ProcessElement")
        ResetCalls == SelectSeq(last.calls, LAMBDA c : c[1] = "Reset")
    IN
        (/\ last.stm \in Conns /\ last.pre \in {connected, authenticating}
         /\ ProcessElementCalls # <<>> /\ last.in.env \in {"sasl-error", "error"}) =>
            /\ last.out = <<(<<"failure", IF last.in.env = "sasl-error" THEN "not-authorized"
                                          ELSE "temporary-auth-failure">>)>>
            /\ Len(ProcessElementCalls) = 1
            /\ ResetCalls = <<(<<"Reset", ProcessElementCalls[1][2], "">>)>>
            /\ stm[last.stm].activeAuth = ""
            /\ stm[last.stm].state = connected

\* C28: a message whose routing returns NotAuthenticated, handled in sessionStarted
\* by a stream with an offline module, is handed to the module: ArchiveMessage is
\* called for it
C28_OfflineRecipientArchived ==
    LET \* the closure that just ended handled, in sessionStarted, a message for which
        \* router.Route returned ErrNotAuthenticated, on a stream with an offline module
        NotAuthenticatedMessage ==
            /\ offline.pc # "none" /\ last.stm = OffStream /\ last.pre = sessionStarted
            /\ last.in.name = "message" /\ RouteOutcome(streams, last.in) = "ErrNotAuthenticated"
    IN
        NotAuthenticatedMessage =>
            \E i \in 1..Len(last.calls) : last.calls[i][1] = "ArchiveMessage"

(***************************************************************************)
(* bindResource: what holds when the bind result is written.               *)
(***************************************************************************)

\* C29: whenever a stream emits a successful bind result IQ it has set a
\* non-empty resource, its context JID is user@domain/resource with the
\* authenticated username, and the router holds an entry of that stream
\* under that bare JID and resource; so a bind whose router registration
\* fails (an entry already exists) emits no success result.
C29_BindResultMeansRegistered ==
    LET \* the closure that just ended wrote a successful bind result IQ
        BindResultWritten ==
            /\ last # NoLast
            /\ \E i \in 1..Len(last.out) :
                  Len(last.out[i]) >= 3 /\ last.out[i][1] = "iq" /\ last.out[i][2] = "result"
                  /\ last.out[i][3] = "bind"
    IN
        BindResultWritten =>
            LET m == stm[last.stm]
            IN  /\ m.resource # ""
                /\ m.username # ""
                /\ m.jid = JID(m.username, m.domain, m.resource)
                /\ [stm |-> last.stm, node |-> m.username, domain |-> m.domain,
                    resource |-> m.resource] \in streams

(***************************************************************************)
(* processIQ: the IQs handed to router.Route and what the sender is told.  *)
(***************************************************************************)

\* C30: for every IQ the stream routes through the router, each non-ok
\* routing outcome is answered with a stanza error to the sender when the
\* IQ is a request (get or set), and no error reply is written for an IQ of
\* type result or error.
C30_RoutedIQErrorsAnswered ==
    LET \* the closure that just ended was processIQ of an IQ that went through
        \* router.Route, and Route returned an error
        RoutedIQFailed ==
            /\ last # NoLast /\ last.pre = sessionStarted /\ last.in.name = "iq"
            /\ IsRouted([state |-> last.pre], last.in)
            /\ RouteOutcome(streams, last.in) # "nil"
        \* the stanza errors written to the sender by that closure
        ErrorReplies ==
            {i \in 1..Len(last.out) : Len(last.out[i]) >= 2 /\ last.out[i][1] = "iq"
                                      /\ last.out[i][2] = "error"}
    IN
        RoutedIQFailed =>
            IF last.in.type \in {"get", "set"} THEN ErrorReplies # {} ELSE ErrorReplies = {}

\* C31: for every interleaving of the archive operations run by the offline
\* actors of different sender streams toward the same recipient, the number of
\* messages stored for that recipient never exceeds QueueSize
C31_StoredWithinQueueSize ==
    offline.pc # "none" => offline.stored <= offline.queueSize

\* C32: offline delivery loses no message: deliverOfflineMessages deletes from
\* storage only messages it has sent to the stream; a message archived for the
\* user between the fetch and the delete is still in storage afterwards, and a
\* message handed to a stream that is already disconnected is not deleted
C32_DeletesOnlySent ==
    offline.deleted \subseteq offline.sent

\* C33: the <stream:features> emitted on a stream open depend only on the
\* context: starttls is advertised iff the transport is a socket and the stream
\* is not secured; the SASL mechanisms are advertised iff the stream is
\* unauthenticated and not on an unsecured socket, listing every configured
\* authenticator; once authenticated, bind and session are always advertised and
\* compression iff the transport is a socket, compression is configured and the
\* stream is not compressed; the next state is connected iff unauthenticated,
\* else authenticated
C33_FeaturesByContext ==
    \A i \in 1..Len(last.out) :
        (last.pre = connecting /\ last.out[i][1] = "stream:features") =>
            LET f == last.out[i]
                m == stm[last.stm]
                Has(x) == \E k \in 2..Len(f) : f[k] = x
                unsecuredSocket == cfg.transport = Socket /\ ~m.secured
            IN  /\ Has("starttls") <=> unsecuredSocket
                /\ Has("mechanisms") <=> (~m.authenticated /\ ~unsecuredSocket)
                /\ Has("mechanisms") =>
                       \A k \in 1..Len(initializeAuthenticators(cfg.sasl)) :
                          Has(initializeAuthenticators(cfg.sasl)[k])
                /\ m.authenticated => (Has("bind") /\ Has("session"))
                /\ ~m.authenticated => ~(Has("bind") \/ Has("session") \/ Has("compression"))
                /\ m.authenticated =>
                       (Has("compression") <=>
                           (cfg.transport = Socket /\ cfg.compression /\ ~m.compressed))
                /\ m.state = IF m.authenticated THEN authenticated ELSE connected

\* C34: in sessionStarted a stanza whose recipient domain is not that of a server
\* component (such a stanza goes to the component, without the blocked check) and
\* whose recipient is blocked for the sending
\* user yields exactly one not-acceptable stanza error with a <blocked/>
\* condition, is neither routed (nothing reaches another stream, the registry is
\* as it was) nor given to an IQ handler, and the stream stays in sessionStarted
\* with all its fields; a recipient that is the local server is never treated as
\* blocked, whatever the router says
C34_BlockedRecipient ==
    [][\A s \in Conns :
          (last'.stm = s /\ last'.pre = sessionStarted /\ IsStanza(last'.in)
           /\ last'.in.env = "blocked-by-user" /\ last'.in.to.domain \notin Components) =>
              IF IsServer(last'.in.to) /\ IsLocalHost(last'.in.to.domain)
              THEN \A i \in 1..Len(last'.out) :
                      \A k \in 1..Len(last'.out[i]) : last'.out[i][k] # "not-acceptable"
              ELSE /\ last'.out = <<(<<last'.in.name, "error", "not-acceptable", "blocked">>)>>
                   /\ last'.calls = <<>>
                   /\ actor[s].pc = "loop"
                   /\ stm' = stm /\ stm[s].state = sessionStarted
                   /\ streams' = streams
                   /\ \A x \in Streams \ {s} : actorCh'[x] = actorCh[x]]_vars

\* C34 as stated: in sessionStarted every stanza whose recipient is blocked for the
\* sending user yields exactly one not-acceptable stanza error with a <blocked/>
\* condition, is neither routed nor given to an IQ handler or anything else, and
\* the stream stays in sessionStarted; the local server is never treated as blocked
C34_BlockedRecipientAnyDomain ==
    [][\A s \in Conns :
          (last'.stm = s /\ last'.pre = sessionStarted /\ IsStanza(last'.in)
           /\ last'.in.env = "blocked-by-user") =>
              IF IsServer(last'.in.to) /\ IsLocalHost(last'.in.to.domain)
              THEN \A i \in 1..Len(last'.out) :
                      \A k \in 1..Len(last'.out[i]) : last'.out[i][k] # "not-acceptable"
              ELSE /\ last'.out = <<(<<last'.in.name, "error", "not-acceptable", "blocked">>)>>
                   /\ last'.calls = <<>>
                   /\ actor[s].pc = "loop"
                   /\ stm' = stm /\ stm[s].state = sessionStarted
                   /\ streams' = streams
                   /\ \A x \in Streams \ {s} : actorCh'[x] = actorCh[x]]_vars

\* a request IQ to a blocked recipient has been answered
C34_Witness ==
    /\ last.pre = sessionStarted /\ last.in.name = "iq" /\ last.in.env = "blocked-by-user"
    /\ ~IsServer(last.in.to) /\ last.out # <<>>

\* C35: at most one Receive call is outstanding per stream at any time (there is
\* at most one doRead goroutine, in Receive, at its mailbox send or with its
\* closure in the mailbox), and restartSession replaces the session only while
\* no Receive on the old session is in progress, for every interleaving of the
\* reader, the actor, the SendElement and Disconnect callers and the connect timer
C35_OneReceiveOutstanding ==
    /\ [](\A s \in Streams :
             rdRecv[s] + Cardinality(rdHold[s])
             + Cardinality({i \in 1..Len(actorCh[s]) : actorCh[s][i].k \in {"elem", "serr"}}) <= 1)
    /\ [][\A s \in Conns :
              (stm[s].state # connecting /\ stm'[s].state = connecting) =>
                  (rdRecv[s] = 0 /\ rdHold[s] = {} /\ rdRecv'[s] = 1)]_vars

\* the session has been restarted and the next Receive, on the new session, is
\* outstanding
C35_Witness ==
    /\ last.stm \in Conns /\ last.pre = connected /\ last.in.name = "starttls"
    /\ stm[last.stm].state = connecting /\ rdRecv[last.stm] = 1

\* C36: disconnected is absorbing: once a stream's state is disconnected no later
\* step changes its state or any of its fields, and no inbound element,
\* SendElement closure or timer closure that was queued before the disconnect is
\* executed or writes to the session afterwards: its mailbox is not received from
C36_DisconnectedAbsorbing ==
    [][\A s \in Conns :
          stm[s].state = disconnected =>
              /\ stm'[s] = stm[s]
              /\ term'[s] = term[s]
              /\ last'.stm # s
              /\ actorCh[s] # <<>> => (actorCh'[s] # <<>> /\ Head(actorCh'[s]) = Head(actorCh[s]))]_vars

\* a stream is disconnected with closures of a reader and of another sender left in
\* its mailbox
C36_Witness ==
    \E s \in Conns :
        /\ stm[s].state = disconnected /\ Len(actorCh[s]) = MaxMailbox
        /\ \E i \in 1..Len(actorCh[s]) : actorCh[s][i].k \in {"elem", "send", "tmo"}


\* C37: in every sequence of module Initialize and Shutdown calls, Initialize when
\* initialized and Shutdown when not initialized change nothing, the shutdown
\* channel of each initialization is closed exactly once (not while initialized,
\* once after Shutdown), IQHandlers() is empty after Shutdown, and after an
\* Initialize the handler list holds disco first and each enabled module once
C37_InitializeShutdownLifecycle ==
    LET handlers == {IQHandlers[i] : i \in 1..Len(IQHandlers)}
    IN  /\ mods.initialized =>
              /\ \A e \in SUBSET {ModuleOrder[i] : i \in 1..Len(ModuleOrder)} :
                    Initialize(mods, e) = mods
              /\ mods.closes = 0 /\ shutdownCh = "open"
              /\ IQHandlers # <<>> /\ IQHandlers[1] = "disco"
              /\ handlers = {"disco"} \cup cfg.enabled
              /\ Len(IQHandlers) = Cardinality(handlers)
        /\ ~mods.initialized =>
              /\ Shutdown(mods) = mods
              /\ mods.closes = 1 /\ shutdownCh = "closed"
              /\ IQHandlers = <<>>

\* a second initialization after a Shutdown, with every module enabled
C37_Witness ==
    /\ mods.initialized /\ mods.gen = 2
    /\ IQHandlers = <<"disco", "last_activity", "private", "vcard", "version">>

====
